---- MODULE Spec2Model ----
(***************************************************************************)
(* Chert backend of Xapian: the multi-table commit engine                  *)
(* (xapian-core/backends/chert/chert_database.cc).                         *)
(*                                                                         *)
(* Part I  - the revision machine: six revision-numbered tables on disk,   *)
(*           one writable handle "w" (it owns the write lock) and one      *)
(*           read-only handle "r".  Every table commit and every table     *)
(*           open is one step, so a reader's open_tables_consistent        *)
(*           interleaves with the writer's table-by-table commits, with    *)
(*           commit errors and with crashes of the writer.                 *)
(* Part II - the write buffer of ChertWritableDatabase (freq_deltas,       *)
(*           doclens, mod_plists) under add/delete/replace_document.       *)
(***************************************************************************)
EXTENDS Integers, Sequences, FiniteSets, TLC

(***************************************************************************)
(* Bounds of the model.                                                    *)
(***************************************************************************)
\* Largest revision number a commit may allocate.
MaxRev == 4
\* The retry budget of open_tables_consistent ("int tries = 100" in the
\* source), scaled down so that its exhaustion is reachable below MaxRev.
tries == 2
\* How many base files the disk may lose (SpecCorrupt only).
MaxLost == 1
\* Largest document id.
MaxDid == 2
\* Largest within-document frequency of a term.
MaxWdf == 2
\* Number of changes after which the write buffer is flushed (the source
\* takes it from XAPIAN_FLUSH_THRESHOLD, 10000 by default).
flush_threshold == 3

\* MAX_DB_COPIES_PER_CONVERSATION of the replication protocol, scaled down.
MAX_DB_COPIES_PER_CONVERSATION == 2

\* How far the directory's revision may run ahead of the driver.
MaxGap == 2
\* Largest value of XAPIAN_MAX_CHANGESETS.
MaxChangesets == 1
\* Term positions are 0..MaxPos and one that pack_uint needs two bytes for.
MaxPos == 3

Handles == {"w", "r"}

\* The processes that construct writable handles.
Openers == {"p1", "p2"}

\* The constructor's actions other than XAPIAN_DB_READONLY.
WritableActions ==
    {"DB_OPEN", "DB_CREATE", "DB_CREATE_OR_OPEN", "DB_CREATE_OR_OVERWRITE"}

Tables == {"postlist", "position", "termlist", "synonym", "spelling", "record"}

\* The exceptions a table commit can raise, as apply() tells them apart:
\* catch (const Xapian::Error &) and catch (...).
ErrKinds == {"Xapian::Error", "unknown"}

\* What a table holds at a revision, abstracted to a stamp.
Stamps == {"s0", "s1"}

\* The terms documents are made of.
Terms == {"a", "b"}

Dids == 1..MaxDid

\* A document, as the wdf of each term (0: the term is not in it).
Docs == [Terms -> 0..MaxWdf]

\* A std::map without entries.
EmptyMap == [x \in {} |-> 0]

Max(S) == CHOOSE x \in S : \A y \in S : y <= x

VARIABLES
    disk,          \* disk[t]: the (at most two) base files of table t, each
                   \* a record [rev, data]
    lock,          \* holder of the write lock ("flintlock"): "none" or "w"
    pc,            \* pc[h]: position of handle h
    op,            \* op[h]: the operation in progress, "ctor" or "reopen"
    res,           \* res[h]: how the last operation on h ended
    tab,           \* tab[h][t]: [open, rev] of handle h's table object t
    cur_rev,       \* locals of open_tables_consistent, per handle
    revision,
    tries_left,
    oidx,          \* index into OpenOrder of the table opened next
    pend,          \* stamp of the writer's buffered changes, or "none"
    old_revision,  \* locals of apply() / modifications_failed()
    new_revision,
    cidx,          \* index into CommitOrder of the table committed next
    phase,         \* which caller runs set_revision_number
    orig_err,      \* the exception apply() caught and rethrows
    lost,          \* number of base files lost so far
    max_changesets,   \* atoi(getenv("XAPIAN_MAX_CHANGESETS")), 0 if unset
    changes_fd,    \* local of set_revision_number: -1 or an open descriptor
    changes_name,  \* N of the local changes_name "changes<N>", 0 if empty
    changesets,    \* the changes<N> files of the directory: N -> bytes
    tables,        \* the writer's view of the tables, uncommitted changes
                   \* included: termlist, records, postlists, stats
    committed,     \* the same at the last committed revision
    stats,         \* ChertDatabaseStats of the writer, in memory
    freq_deltas,   \* map term -> [termfreq, collfreq]
    doclens,       \* map did -> length, -1 marks a deleted document
    mod_plists,    \* map term -> map did -> [op, wdf]
    change_count,
    transaction_active,
    assertions,    \* the build has XAPIAN_ASSERTIONS (Assert is checked)
    posterms,      \* the terms the caller's documents carry positions for
    bres,          \* how the last call on the write buffer ended
    modify_shortcut_docid   \* did of the latest open_document, 0 for none

\* Part III: write_changesets_to_fd on a read-only handle, beside a writer.
\* Revisions are kept as distances from the lowest revision the driver can
\* still refer to (the smaller of start_rev_num and the handle's revision):
\* the driver only compares revisions and names files after them.
VARIABLES
    rpc,                   \* where the driver is: "loop", "copied",
                           \* "lookup" or "done"
    rres,                  \* how the call ended
    need_whole_db,
    whole_db_copies_left,
    start_rev_num,
    start_uuid,
    fullcopy_count,        \* growth of info->fullcopy_count in this call
    r_rev,                 \* get_revision_number() of the driver's handle
    r_uuid,                \* get_uuid() of the driver's handle
    d_rev,                 \* latest revision committed in the directory
    d_uuid,                \* uuid of the database now in the directory
    changes,               \* changes<N> files: N -> [start, end] of header
    last_msg,              \* type of the last message sent on the fd
    follower_rev,          \* revision the receiver of the messages is at
    streamed,              \* the last changeset sent: how far its start
                           \* was from follower_rev, and end - start
    footer                 \* REPL_REPLY_DB_FOOTER messages sent since the
                           \* last copy, whether the uuid matched, and
                           \* how far the footer's revision is above the
                           \* one of the REPL_REPLY_DB_HEADER

\* Part IV: processes constructing writable handles on one directory.
VARIABLES
    dbdir,         \* the directory: [state, rev], state "nodir", "empty"
                   \* (a directory without tables) or "db"; rev is the
                   \* latest committed revision of the tables
    flintlock,     \* holder of the lock file db_dir/flintlock, or "none"
    cpc,           \* cpc[p]: where p's constructor is, or "open"
    cact,          \* cact[p]: the action p's constructor was given
    cres,          \* cres[p]: how p's last call ended
    hrev           \* hrev[p]: revision p's handle has open, -1 for none

\* Part III, send_whole_database taken file by file.
VARIABLES
    dirfiles,      \* leaf names of the table files that exist in db_dir
    fpos,          \* index in filenames of the file the copy is at, 0
                   \* when no copy is being made
    announced,     \* REPL_REPLY_DB_FILENAME has been sent for that file
    sent           \* the messages of the copy in progress, in order

\* Part V: the position list of one (did, term) key.
VARIABLES
    ptable,        \* the position table's entry for the key
    stored,        \* the positions last handed to set_positionlist
    positions,     \* ChertPositionList::positions
    current_pos,   \* index into positions; Len(positions) + 1 is end()
    have_started,
    plres,         \* how the last call on the list ended
    plval          \* the number the last call returned

otcvars == <<cur_rev, revision, tries_left, oidx>>

wvars == <<pend, old_revision, new_revision, cidx, phase, orig_err>>

chvars == <<max_changesets, changes_fd, changes_name, changesets>>

revvars == <<disk, lock, pc, op, res, tab, cur_rev, revision, tries_left,
             oidx, pend, old_revision, new_revision, cidx, phase, orig_err,
             lost, chvars>>

bufvars == <<tables, committed, stats, freq_deltas, doclens, mod_plists,
             change_count, transaction_active, assertions, posterms, bres,
             modify_shortcut_docid>>

wcfvars == <<rpc, rres, need_whole_db, whole_db_copies_left, start_rev_num,
             start_uuid, fullcopy_count, r_rev, r_uuid, d_rev, d_uuid,
             changes, last_msg, follower_rev, streamed, footer>>

ctorvars == <<dbdir, flintlock, cpc, cact, cres, hrev>>

\* What the actions of Parts I and II leave alone.
copyvars == <<dirfiles, fpos, announced, sent>>

plvars == <<ptable, stored, positions, current_pos, have_started, plres,
            plval>>

replvars == <<wcfvars, ctorvars, copyvars, plvars>>

vars == <<revvars, bufvars, replvars>>

(***************************************************************************)
(* The table collaborator (ChertTable), from its contract in the           *)
(* specification: a table keeps two base files; a commit writes the base   *)
(* that is not in use by the committing handle.                            *)
(***************************************************************************)
Revs(t) == {e.rev : e \in disk[t]}

get_latest_revision_number(t) == Max(Revs(t))

\* ChertTable::open(revision): true iff a base file holds that revision.
TableCanOpen(t, r) == r \in Revs(t)

DataAt(t, r) ==
    IF r \in Revs(t) THEN (CHOOSE e \in disk[t] : e.rev = r).data ELSE "s0"

\* ChertTable::commit(new): the base of the open revision stays, the other
\* base is overwritten.
TableCommit(t, openrev, new, d) ==
    {e \in disk[t] : e.rev = openrev} \cup {[rev |-> new, data |-> d]}

ClosedTab == [t \in Tables |-> [open |-> FALSE, rev |-> 0]]

(***************************************************************************)
(* Orders fixed by the source.                                             *)
(***************************************************************************)
CommitOrder_RecordFirst ==
    <<"record", "postlist", "position", "termlist", "synonym", "spelling">>

\* set_revision_number: postlist first, record last.
CommitOrder ==
    <<"postlist", "position", "termlist", "synonym", "spelling", "record">>

\* open_tables_consistent: the && chain after record_table.open().
OpenOrder == <<"spelling", "synonym", "termlist", "position", "postlist">>

\* ChertDatabase::get_revision_number
get_revision_number(h) == tab[h]["postlist"].rev

get_next_revision_number_NoIncrement == get_latest_revision_number("postlist")

\* ChertDatabase::get_next_revision_number
get_next_revision_number == get_latest_revision_number("postlist") + 1

\* An apply() that takes every table as modified.
modified_Always == TRUE

\* Some table is_modified() (apply, lines 729-735).
modified == pend # "none"

\* CHANGES_MAGIC_STRING and CHANGES_VERSION, as single bytes.
CHANGES_MAGIC == "ChertChanges"

CHANGES_VERSION == 1

\* pack_uint: seven bits a byte, low bits first, the top bit set on every
\* byte but the last.
RECURSIVE pack_uint(_)
pack_uint(n) ==
    IF n < 128 THEN <<n>> ELSE <<128 + (n % 128)>> \o pack_uint(n \div 128)

\* unpack_uint at position i of buf: <<ok, value, next position>>.
RECURSIVE unpack_uint(_, _)
unpack_uint(buf, i) ==
    IF i > Len(buf) THEN <<FALSE, 0, i>>
    ELSE IF buf[i] < 128 THEN <<TRUE, buf[i], i + 1>>
    ELSE LET rest == unpack_uint(buf, i + 1)
         IN <<rest[1], (buf[i] - 128) + 128 * rest[2], rest[3]>>

\* The entry of one key of a table: absent, or the string stored.
NoEntry == [present |-> FALSE, data |-> <<>>]

ChangesetHeader_Swapped(old, new) ==
    <<CHANGES_MAGIC>> \o pack_uint(CHANGES_VERSION) \o pack_uint(new)
        \o pack_uint(old) \o pack_uint(0)

\* set_revision_number, lines 434-444: what is written first to changes_fd.
ChangesetHeader(old, new) ==
    <<CHANGES_MAGIC>> \o pack_uint(CHANGES_VERSION) \o pack_uint(old)
        \o pack_uint(new) \o pack_uint(0)

ChangesetError == [err |-> "DatabaseError", startrev |-> 0, endrev |-> 0]

\* get_changeset_revisions on a file holding buf: *startrev and *endrev, or
\* the DatabaseError it throws.
get_changeset_revisions(buf) ==
    IF Len(buf) = 0 \/ buf[1] # CHANGES_MAGIC THEN ChangesetError
    ELSE IF Len(buf) < 2 THEN ChangesetError
    ELSE LET v == unpack_uint(buf, 2)
             st == unpack_uint(buf, v[3])
             en == unpack_uint(buf, st[3])
         IN IF ~v[1] \/ v[2] # CHANGES_VERSION \/ ~st[1] \/ ~en[1]
            THEN ChangesetError
            ELSE [err |-> "none", startrev |-> st[2], endrev |-> en[2]]

\* set_revision_number, lines 413-415: a changeset is made.
MakesChangeset(old) == max_changesets > 0 /\ old # 0

\* set_revision_number, lines 410-444, entered by a handle whose
\* get_revision_number() is old: changes<old> is created or truncated and
\* the header is written.
ChangesetOpen(old, new) ==
    /\ max_changesets' = max_changesets
    /\ IF MakesChangeset(old)
       THEN /\ changes_fd' = 3
            /\ changes_name' = old
            /\ changesets' = (old :> ChangesetHeader(old, new)) @@ changesets
       ELSE /\ changes_fd' = -1
            /\ changes_name' = 0
            /\ changesets' = changesets

ChangesetUnlinked_Kept(files, n) == files

\* sys_unlink_if_exists(changes_name), line 474.
ChangesetUnlinked(files, n) == [x \in DOMAIN files \ {n} |-> files[x]]

\* set_revision_number, lines 471-478: the catch block, and fdcloser.
ChangesetCatch ==
    /\ max_changesets' = max_changesets
    /\ changes_fd' = -1
    /\ changes_name' = 0
    /\ changesets' = IF changes_fd >= 0
                     THEN ChangesetUnlinked(changesets, changes_name)
                     ELSE changesets

\* The descriptor goes (fdcloser, or the process dies); the file stays.
ChangesetClosed ==
    /\ max_changesets' = max_changesets
    /\ changes_fd' = -1
    /\ changes_name' = 0
    /\ changesets' = changesets

AllOpenAt(h, r) == \A t \in Tables : tab[h][t].open /\ tab[h][t].rev = r

(***************************************************************************)
(* Initial state: the directory as create_and_open_tables leaves it (all   *)
(* six tables at revision 0), no handle open.                              *)
(***************************************************************************)
InitRev ==
    /\ disk = [t \in Tables |-> {[rev |-> 0, data |-> "s0"]}]
    /\ lock = "none"
    /\ pc = [h \in Handles |-> "none"]
    /\ op = [h \in Handles |-> "ctor"]
    /\ res = [h \in Handles |-> "none"]
    /\ tab = [h \in Handles |-> ClosedTab]
    /\ cur_rev = [h \in Handles |-> 0]
    /\ revision = [h \in Handles |-> 0]
    /\ tries_left = [h \in Handles |-> 0]
    /\ oidx = [h \in Handles |-> 1]
    /\ pend = "none"
    /\ old_revision = 0
    /\ new_revision = 0
    /\ cidx = 1
    /\ phase = "idle"
    /\ orig_err = "none"
    /\ lost = 0
    /\ changes_fd = -1
    /\ changes_name = 0
    /\ changesets = EmptyMap

NoStats == [last_docid |-> 0, doccount |-> 0, total_doclen |-> 0]

\* The tables of a database just created.  termlist_open tells whether the
\* database has its termlist table, which is optional.
NoTables ==
    [termlist |-> EmptyMap, termlist_open |-> TRUE, records |-> {},
     positions |-> {}, postlists |-> [t \in Terms |-> EmptyMap], doclens |-> EmptyMap,
     freqs |-> [t \in Terms |-> [termfreq |-> 0, collfreq |-> 0]],
     stats |-> NoStats, modified |-> FALSE]

BufferEmpty(fd, dl, mp) == fd = EmptyMap /\ dl = EmptyMap /\ mp = EmptyMap

\* ChertWritableDatabase::ChertWritableDatabase on the database just
\* created: empty tables, empty write buffer, change_count(0).
InitBuf ==
    /\ tables = NoTables
    /\ committed = NoTables
    /\ stats = NoStats
    /\ freq_deltas = EmptyMap
    /\ doclens = EmptyMap
    /\ mod_plists = EmptyMap
    /\ change_count = 0
    /\ transaction_active = FALSE
    /\ bres = "none"
    /\ modify_shortcut_docid = 0

\* No whole-database copy has been sent, or none since the last footer.
NoFooter == [sent |-> 0, matched |-> FALSE, ahead |-> 0]

\* No changeset has been sent.
NoneStreamed == [sent |-> FALSE, gap |-> 0, len |-> 0]

\* No write_changesets_to_fd call has been made.
NoRepl ==
    /\ rpc = "idle"
    /\ rres = "none"
    /\ need_whole_db = FALSE
    /\ whole_db_copies_left = 0
    /\ start_rev_num = 0
    /\ start_uuid = 0
    /\ fullcopy_count = 0
    /\ r_rev = 0
    /\ r_uuid = 0
    /\ d_rev = 0
    /\ d_uuid = 0
    /\ changes = EmptyMap
    /\ last_msg = "none"
    /\ follower_rev = 0
    /\ streamed = NoneStreamed
    /\ footer = NoFooter

\* The names send_whole_database goes through, in its order (lines
\* 543-550).
filenames ==
    <<"termlist.DB", "termlist.baseA", "termlist.baseB",
      "synonym.DB", "synonym.baseA", "synonym.baseB",
      "spelling.DB", "spelling.baseA", "spelling.baseB",
      "record.DB", "record.baseA", "record.baseB",
      "position.DB", "position.baseA", "position.baseB",
      "postlist.DB", "postlist.baseA", "postlist.baseB",
      "iamchert">>

AllFiles == {filenames[i] : i \in 1..Len(filenames)}

\* No whole-database copy is being made; every file is there.
NoCopy ==
    /\ dirfiles = AllFiles
    /\ fpos = 0
    /\ announced = FALSE
    /\ sent = <<>>

\* The position table has no entry for the key, no list is loaded.
NoPosList ==
    /\ ptable = NoEntry
    /\ stored = <<>>
    /\ positions = <<>>
    /\ current_pos = 1
    /\ have_started = FALSE
    /\ plres = "none"
    /\ plval = 0

\* No process constructs a handle; the database exists.
NoOpeners ==
    /\ dbdir = [state |-> "db", rev |-> 0]
    /\ flintlock = "none"
    /\ cpc = [p \in Openers |-> "none"]
    /\ cact = [p \in Openers |-> "none"]
    /\ cres = [p \in Openers |-> "none"]
    /\ hrev = [p \in Openers |-> -1]

Init ==
    /\ InitRev /\ NoPosList /\ NoCopy /\ max_changesets = 0 /\ InitBuf /\ assertions = FALSE /\ posterms = {}
    /\ NoRepl /\ NoOpeners

(***************************************************************************)
(* open_tables_consistent, run by the constructor of either handle and by  *)
(* reopen() of the read-only handle.                                       *)
(***************************************************************************)
\* record_table.open(); revision = record_table.get_open_revision_number()
OpenedRecordRevision == get_latest_revision_number("record")

RecordUnchanged_Never(rev, newrevision) == FALSE

\* if (revision == newrevision) throw DatabaseCorruptError
RecordUnchanged(rev, newrevision) == rev = newrevision

\* while (!fully_opened && (--tries_left) > 0)
LoopTest_PreDecrement(tl) == tl > 1

\* while (!fully_opened && (tries_left--) > 0)
LoopTest(tl) == tl > 0

NeedsRecovery_Never(t1) == FALSE

\* The constructor's check after open_tables_consistent:
\* record_table.get_open_revision_number() !=
\* postlist_table.get_latest_revision_number()
NeedsRecovery(t1) ==
    t1["w"]["record"].rev # get_latest_revision_number("postlist")

\* open_tables_consistent raises e.  A constructor that throws leaves no
\* handle (its lock goes with it); a reopen() leaves the handle as it is.
OTC_Throw(h, e, t1) ==
    /\ res' = [res EXCEPT ![h] = e]
    /\ revision' = [revision EXCEPT ![h] = 0]
    /\ tries_left' = [tries_left EXCEPT ![h] = 0]
    /\ oidx' = [oidx EXCEPT ![h] = 1]
    /\ IF op[h] = "ctor"
       THEN /\ pc' = [pc EXCEPT ![h] = "none"]
            /\ tab' = [tab EXCEPT ![h] = ClosedTab]
            /\ lock' = IF h = "w" THEN "none" ELSE lock
       ELSE /\ pc' = [pc EXCEPT ![h] = "ready"]
            /\ tab' = t1
            /\ lock' = lock
    /\ UNCHANGED <<wvars, chvars>>

\* open_tables_consistent returns.  In the writable constructor the check
\* for more recent table versions follows at once.
OTC_Return(h, t1) ==
    /\ tab' = t1
    /\ revision' = [revision EXCEPT ![h] = 0]
    /\ tries_left' = [tries_left EXCEPT ![h] = 0]
    /\ oidx' = [oidx EXCEPT ![h] = 1]
    /\ lock' = lock
    /\ IF h = "w" /\ op[h] = "ctor" /\ NeedsRecovery(t1)
       THEN /\ pc' = [pc EXCEPT ![h] = "commit"]
            /\ new_revision' = get_next_revision_number
            /\ cidx' = 1
            /\ phase' = "ctor"
            /\ ChangesetOpen(t1[h]["postlist"].rev, get_next_revision_number)
            /\ UNCHANGED <<res, pend, old_revision, orig_err>>
       ELSE /\ pc' = [pc EXCEPT ![h] = "ready"]
            /\ res' = [res EXCEPT ![h] = "ok"]
            /\ UNCHANGED <<wvars, chvars>>

\* The loop condition, evaluated with tries_left = tl and !fully_opened.
OTC_Loop(h, t1, rev, tl) ==
    IF LoopTest(tl)
    THEN /\ tries_left' = [tries_left EXCEPT ![h] = tl - 1]
         /\ revision' = [revision EXCEPT ![h] = rev]
         /\ oidx' = [oidx EXCEPT ![h] = 1]
         /\ pc' = [pc EXCEPT ![h] = "otc_open"]
         /\ tab' = t1
         /\ UNCHANGED <<res, lock, wvars, chvars>>
    ELSE OTC_Throw(h, "DatabaseModifiedError", t1)

\* Lines 236-261: open record_table, compare with the revision open before.
OTC_Start(h) ==
    /\ pc[h] = "otc_start"
    /\ LET cur == tab[h]["record"].rev
           rev == OpenedRecordRevision
           t1 == [tab EXCEPT ![h]["record"] = [open |-> TRUE, rev |-> rev]]
       IN /\ cur_rev' = [cur_rev EXCEPT ![h] = cur]
          /\ IF cur # 0 /\ cur = rev
             THEN OTC_Return(h, t1)
             ELSE OTC_Loop(h, t1, rev, tries)
    /\ UNCHANGED <<disk, op, lost, bufvars, replvars>>

\* Lines 263-269: one table of the && chain is opened at `revision`.
OTC_Open(h) ==
    /\ pc[h] = "otc_open"
    /\ LET t == OpenOrder[oidx[h]]
       IN IF TableCanOpen(t, revision[h])
          THEN LET t1 == [tab EXCEPT ![h][t] =
                              [open |-> TRUE, rev |-> revision[h]]]
               IN IF oidx[h] = Len(OpenOrder)
                  THEN OTC_Return(h, t1) /\ cur_rev' = cur_rev
                  ELSE /\ oidx' = [oidx EXCEPT ![h] = @ + 1]
                       /\ tab' = t1
                       /\ UNCHANGED <<pc, res, lock, wvars, chvars, cur_rev,
                                      revision, tries_left>>
          ELSE /\ tab' = [tab EXCEPT ![h][t].open = FALSE]
               /\ pc' = [pc EXCEPT ![h] = "otc_record"]
               /\ UNCHANGED <<res, lock, wvars, chvars, otcvars>>
    /\ UNCHANGED <<disk, op, lost, bufvars, replvars>>

\* Lines 281-291: an open failed; record_table is opened again.
OTC_Record(h) ==
    /\ pc[h] = "otc_record"
    /\ LET newrevision == OpenedRecordRevision
           t1 == [tab EXCEPT ![h]["record"] =
                      [open |-> TRUE, rev |-> newrevision]]
       IN IF RecordUnchanged(revision[h], newrevision)
          THEN OTC_Throw(h, "DatabaseCorruptError", t1)
          ELSE OTC_Loop(h, t1, newrevision, tries_left[h])
    /\ cur_rev' = cur_rev
    /\ UNCHANGED <<disk, op, lost, bufvars, replvars>>

(***************************************************************************)
(* The read-only handle.                                                   *)
(***************************************************************************)
\* ChertDatabase::ChertDatabase with XAPIAN_DB_READONLY.
Ctor_Reader ==
    /\ pc["r"] = "none"
    /\ pc' = [pc EXCEPT !["r"] = "otc_start"]
    /\ op' = [op EXCEPT !["r"] = "ctor"]
    /\ UNCHANGED <<disk, lock, res, tab, otcvars, lost, bufvars, replvars, wvars, chvars>>

\* reopen() as close() followed by a fresh open.
Reopen_FromScratch ==
    /\ pc["r"] = "ready"
    /\ pc' = [pc EXCEPT !["r"] = "otc_start"]
    /\ op' = [op EXCEPT !["r"] = "reopen"]
    /\ tab' = [tab EXCEPT !["r"] = ClosedTab]
    /\ UNCHANGED <<disk, lock, res, otcvars, lost, bufvars, replvars, wvars, chvars>>

\* ChertDatabase::reopen: if (readonly) open_tables_consistent().
Reopen ==
    /\ pc["r"] = "ready"
    /\ pc' = [pc EXCEPT !["r"] = "otc_start"]
    /\ op' = [op EXCEPT !["r"] = "reopen"]
    /\ UNCHANGED <<disk, lock, res, tab, otcvars, lost, bufvars, replvars, wvars, chvars>>

\* The reading process goes away.
Drop_Reader ==
    /\ pc["r"] = "ready"
    /\ pc' = [pc EXCEPT !["r"] = "none"]
    /\ tab' = [tab EXCEPT !["r"] = ClosedTab]
    /\ res' = [res EXCEPT !["r"] = "none"]
    /\ cur_rev' = [cur_rev EXCEPT !["r"] = 0]
    /\ UNCHANGED <<disk, lock, op, revision, tries_left, oidx, wvars, chvars, lost,
                   bufvars, replvars>>

(***************************************************************************)
(* The writable handle.                                                    *)
(***************************************************************************)
\* ChertDatabase::ChertDatabase, action DB_OPEN on an existing database:
\* get_database_write_lock(false), then open_tables_consistent().
Ctor_Writer ==
    /\ pc["w"] = "none"
    /\ lock = "none"
    /\ get_next_revision_number <= MaxRev
    /\ lock' = "w"
    /\ pc' = [pc EXCEPT !["w"] = "otc_start"]
    /\ op' = [op EXCEPT !["w"] = "ctor"]
    /\ UNCHANGED <<disk, res, tab, otcvars, lost, bufvars, replvars, wvars, chvars>>

\* Any buffered modification (add_document, set_metadata, add_synonym ...):
\* some table is_modified() afterwards.
Modify(d) ==
    /\ pc["w"] = "ready"
    /\ d # DataAt("postlist", get_revision_number("w"))
    /\ d # pend
    /\ pend' = d
    /\ phase' = "idle"
    /\ res' = [res EXCEPT !["w"] = "ok"]
    /\ UNCHANGED <<disk, lock, pc, op, tab, otcvars, lost, bufvars, replvars,
                   chvars, old_revision, new_revision, cidx, orig_err>>

\* ChertDatabase::cancel (through ChertWritableDatabase::cancel).
Cancel ==
    /\ pc["w"] = "ready"
    /\ modified
    /\ pend' = "none"
    /\ phase' = "idle"
    /\ res' = [res EXCEPT !["w"] = "ok"]
    /\ UNCHANGED <<disk, lock, pc, op, tab, otcvars, lost, bufvars, replvars,
                   chvars, old_revision, new_revision, cidx, orig_err>>

\* ChertDatabase::apply, lines 729-737: nothing is modified.
Apply_Nothing ==
    /\ pc["w"] = "ready"
    /\ ~modified
    /\ phase # "noop"
    /\ phase' = "noop"
    /\ res' = [res EXCEPT !["w"] = "ok"]
    /\ UNCHANGED <<disk, lock, pc, op, tab, otcvars, lost, bufvars, replvars,
                   chvars, pend, old_revision, new_revision, cidx, orig_err>>

\* ChertDatabase::apply, lines 739-743: set_revision_number is entered.
Apply_Begin ==
    /\ pc["w"] = "ready"
    /\ modified
    /\ get_next_revision_number + 1 <= MaxRev
    /\ old_revision' = get_revision_number("w")
    /\ new_revision' = get_next_revision_number
    /\ cidx' = 1
    /\ phase' = "apply"
    /\ pc' = [pc EXCEPT !["w"] = "commit"]
    /\ ChangesetOpen(get_revision_number("w"), get_next_revision_number)
    /\ UNCHANGED <<disk, lock, op, res, tab, otcvars, lost, bufvars, replvars,
                   pend, orig_err>>

\* set_revision_number, lines 458-469: table CommitOrder[cidx] commits
\* new_revision.  After record_table the caller goes on.
Commit ==
    /\ pc["w"] = "commit"
    /\ LET t == CommitOrder[cidx]
           d == IF modified THEN pend ELSE DataAt(t, tab["w"][t].rev)
       IN /\ tab["w"][t].open
          /\ new_revision > tab["w"][t].rev
          /\ disk' = [disk EXCEPT ![t] =
                          TableCommit(t, tab["w"][t].rev, new_revision, d)]
          /\ tab' = [tab EXCEPT !["w"][t].rev = new_revision]
    /\ IF cidx < Len(CommitOrder)
       THEN /\ cidx' = cidx + 1
            /\ UNCHANGED <<pc, res, pend, phase, old_revision,
                           new_revision, orig_err, chvars>>
       ELSE /\ cidx' = 1
            /\ ChangesetClosed
            /\ pc' = [pc EXCEPT !["w"] = "ready"]
            /\ pend' = "none"
            /\ old_revision' = 0
            /\ new_revision' = 0
            /\ orig_err' = "none"
            /\ phase' = CASE phase = "apply" -> "applied"
                          [] phase = "recover" -> "recovered"
                          [] OTHER -> "ctor_recovered"
            \* apply() rethrows the error it caught once
            \* modifications_failed has returned.
            /\ res' = [res EXCEPT !["w"] =
                           IF phase = "recover" THEN orig_err ELSE "ok"]
    /\ UNCHANGED <<lock, op, otcvars, lost, bufvars, replvars>>

\* modifications_failed, line 715: catch (const Xapian::Error &e).
ClosesOnError(k) == k = "Xapian::Error"

\* set_revision_number raises k at table CommitOrder[cidx] (that table
\* does not commit) and the caller handles it:
\*   apply()                 enters modifications_failed, lines 744-749;
\*   modifications_failed()  close() and DatabaseError, lines 715-721;
\*   the constructor         lets it escape, so no handle is left.
CommitFail(k) ==
    /\ pc["w"] = "commit"
    /\ CASE phase = "apply" ->
             /\ orig_err' = k
             /\ pc' = [pc EXCEPT !["w"] = "modifications_failed"]
             /\ UNCHANGED <<lock, res, tab, phase, pend, old_revision,
                            new_revision, cidx>>
         [] phase = "recover" ->
             /\ phase' = "recovery_failed"
             /\ orig_err' = "none"
             /\ old_revision' = 0
             /\ new_revision' = 0
             /\ cidx' = 1
             /\ pend' = pend
             /\ IF ClosesOnError(k)
                THEN /\ tab' = [tab EXCEPT !["w"] =
                                    [t \in Tables |->
                                        [tab["w"][t] EXCEPT !.open = FALSE]]]
                     /\ lock' = "none"
                     /\ pc' = [pc EXCEPT !["w"] = "closed"]
                     /\ res' = [res EXCEPT !["w"] = "DatabaseError"]
                ELSE /\ pc' = [pc EXCEPT !["w"] = "ready"]
                     /\ res' = [res EXCEPT !["w"] = k]
                     /\ UNCHANGED <<lock, tab>>
         [] OTHER ->
             /\ phase' = "idle"
             /\ orig_err' = "none"
             /\ old_revision' = 0
             /\ new_revision' = 0
             /\ cidx' = 1
             /\ pend' = pend
             /\ pc' = [pc EXCEPT !["w"] = "none"]
             /\ tab' = [tab EXCEPT !["w"] = ClosedTab]
             /\ lock' = "none"
             /\ res' = [res EXCEPT !["w"] = k]
    /\ ChangesetCatch
    /\ UNCHANGED <<disk, op, otcvars, lost, bufvars, replvars>>

\* modifications_failed, line 713: ++new_revision.
RecoveryRevision(new) == new + 1

\* modifications_failed, line 709: open_tables(old_revision).
ReopenRevision(old) == old

\* modifications_failed, lines 706-713: cancel(), open_tables(old_revision)
\* and ++new_revision; set_revision_number follows.
ModificationsFailed ==
    /\ pc["w"] = "modifications_failed"
    /\ pend' = "none"
    /\ LET t1 == [t \in Tables |->
                     IF TableCanOpen(t, ReopenRevision(old_revision))
                     THEN [open |-> TRUE,
                           rev |-> ReopenRevision(old_revision)]
                     ELSE [tab["w"][t] EXCEPT !.open = FALSE]]
       IN /\ tab' = [tab EXCEPT !["w"] = t1]
          /\ ChangesetOpen(t1["postlist"].rev,
                           RecoveryRevision(new_revision))
    /\ new_revision' = RecoveryRevision(new_revision)
    /\ cidx' = 1
    /\ phase' = "recover"
    /\ pc' = [pc EXCEPT !["w"] = "commit"]
    /\ UNCHANGED <<disk, lock, op, res, otcvars, lost, bufvars, replvars, old_revision,
                   orig_err>>

\* ChertDatabase::close.
Close ==
    /\ pc["w"] = "ready"
    /\ tab' = [tab EXCEPT !["w"] =
                   [t \in Tables |-> [tab["w"][t] EXCEPT !.open = FALSE]]]
    /\ lock' = "none"
    /\ pc' = [pc EXCEPT !["w"] = "closed"]
    /\ pend' = "none"
    /\ phase' = "idle"
    /\ res' = [res EXCEPT !["w"] = "ok"]
    /\ UNCHANGED <<disk, op, otcvars, lost, bufvars, replvars, chvars,
                   old_revision, new_revision, cidx, orig_err>>

\* The writing process dies (a crash, at any point of any operation) or
\* its closed handle is released: nothing buffered survives, the lock is
\* freed, the base files stay as they are.
Crash ==
    /\ pc["w"] \in {"ready", "commit", "modifications_failed", "closed"}
    /\ pc' = [pc EXCEPT !["w"] = "none"]
    /\ tab' = [tab EXCEPT !["w"] = ClosedTab]
    /\ res' = [res EXCEPT !["w"] = "none"]
    /\ lock' = "none"
    /\ pend' = "none"
    /\ old_revision' = 0
    /\ new_revision' = 0
    /\ orig_err' = "none"
    /\ cidx' = 1
    /\ phase' = "idle"
    /\ ChangesetClosed
    /\ UNCHANGED <<disk, op, otcvars, lost, bufvars, replvars>>

\* A base file of a table other than record is lost or unreadable (case
\* ii of the comment at lines 271-276).
Corrupt ==
    \E t \in Tables \ {"record"} : \E e \in disk[t] :
        /\ Cardinality(disk[t]) = 2
        /\ lost < MaxLost
        /\ lost' = lost + 1
        /\ disk' = [disk EXCEPT ![t] = @ \ {e}]
        /\ UNCHANGED <<lock, pc, op, res, tab, otcvars, wvars, chvars, bufvars, replvars>>

Next ==
    \/ \E h \in Handles : OTC_Start(h)
    \/ \E h \in Handles : OTC_Open(h)
    \/ \E h \in Handles : OTC_Record(h)
    \/ Ctor_Reader
    \/ Reopen
    \/ Drop_Reader
    \/ Ctor_Writer
    \/ \E d \in Stamps : Modify(d)
    \/ Cancel
    \/ Apply_Nothing
    \/ Apply_Begin
    \/ Commit
    \/ \E k \in ErrKinds : CommitFail(k)
    \/ ModificationsFailed
    \/ Close
    \/ Crash

Spec == Init /\ [][Next]_vars

\* A reader and a writer whose commits succeed, on a disk that can lose
\* base files.
NextCorrupt ==
    \/ \E h \in Handles : OTC_Start(h)
    \/ \E h \in Handles : OTC_Open(h)
    \/ \E h \in Handles : OTC_Record(h)
    \/ Ctor_Reader
    \/ Reopen
    \/ Ctor_Writer
    \/ \E d \in Stamps : Modify(d)
    \/ Apply_Begin
    \/ Commit
    \/ Crash
    \/ Corrupt

SpecCorrupt == Init /\ [][NextCorrupt]_vars

\* The scheduler runs a handle that is inside open_tables_consistent: the
\* function is straight-line code and a loop, and it waits for nothing.
OTC_Step(h) == OTC_Start(h) \/ OTC_Open(h) \/ OTC_Record(h)

FairSpec == Spec /\ \A h \in Handles : WF_vars(OTC_Step(h))

\* The writer with XAPIAN_MAX_CHANGESETS set or unset.
ChangesetInit ==
    /\ InitRev /\ NoPosList /\ NoCopy /\ max_changesets \in 0..MaxChangesets
    /\ InitBuf /\ assertions = FALSE /\ posterms = {} /\ NoRepl /\ NoOpeners

ChangesetNext ==
    \/ OTC_Start("w")
    \/ OTC_Open("w")
    \/ Ctor_Writer
    \/ \E d \in Stamps : Modify(d)
    \/ Cancel
    \/ Apply_Nothing
    \/ Apply_Begin
    \/ Commit
    \/ \E k \in ErrKinds : CommitFail(k)
    \/ ModificationsFailed
    \/ Close
    \/ Crash

ChangesetSpec == ChangesetInit /\ [][ChangesetNext]_vars

(***************************************************************************)
(* Part II.  The write buffer of ChertWritableDatabase.  The commit that   *)
(* apply() performs is one step here (Part I takes it apart); document     *)
(* values and document data are left out, and of the position table only   *)
(* which (did, term) keys hold a list is kept.                             *)
(***************************************************************************)
\* #define MAX_SAFE_TERM_LENGTH 245
MAX_SAFE_TERM_LENGTH == 245

\* The byte length of the longest term of a document handed to
\* add_document or replace_document: the longest a term may be, or one more.
TermLens == {MAX_SAFE_TERM_LENGTH, MAX_SAFE_TERM_LENGTH + 1}

DocTerms(doc) == {t \in Terms : doc[t] > 0}

\* tname.size() > MAX_SAFE_TERM_LENGTH for some term of the document
\* (lines 1120 and 1377).
TooLong(doc, len) == DocTerms(doc) # {} /\ len > MAX_SAFE_TERM_LENGTH

RECURSIVE SumWdf(_, _)
SumWdf(doc, S) ==
    IF S = {} THEN 0
    ELSE LET t == CHOOSE x \in S : TRUE IN doc[t] + SumWdf(doc, S \ {t})

\* new_doclen += wdf over the terms of the document.
DocLength(doc) == SumWdf(doc, Terms)

\* A pass that sets the delta of each term instead of moving it.
FreqAdd_Overwrites(fd, doc, sign) ==
    [t \in DOMAIN fd \cup DocTerms(doc) |->
        IF t \in DocTerms(doc)
        THEN [termfreq |-> sign, collfreq |-> sign * doc[t]]
        ELSE fd[t]]

\* The freq_deltas updates of one pass over the terms of doc: sign is 1 in
\* an add loop (lines 1122-1129, 1379-1386), -1 in a remove loop
\* (lines 1222-1229, 1335-1342).
FreqAdd(fd, doc, sign) ==
    [t \in DOMAIN fd \cup DocTerms(doc) |->
        IF t \in DocTerms(doc)
        THEN IF t \in DOMAIN fd
             THEN [termfreq |-> fd[t].termfreq + sign,
                   collfreq |-> fd[t].collfreq + sign * doc[t]]
             ELSE [termfreq |-> sign, collfreq |-> sign * doc[t]]
        ELSE fd[t]]

\* mod_plists.find(tname), the map being created when there is none.
PlistOf(mp, t) == IF t \in DOMAIN mp THEN mp[t] ELSE EmptyMap

\* Lines 1231-1246 and 1344-1360: every term of the old document gets
\* ('D', 0) for did, over whatever was there.
PlistDelete(mp, did, old) ==
    [t \in DOMAIN mp \cup DocTerms(old) |->
        IF t \in DocTerms(old)
        THEN (did :> [op |-> "D", wdf |-> 0]) @@ PlistOf(mp, t)
        ELSE mp[t]]

\* Lines 1131-1139: std::map::insert of ('A', wdf), which leaves an entry
\* that is already there as it is.
PlistInsert(mp, did, doc) ==
    [t \in DOMAIN mp \cup DocTerms(doc) |->
        IF t \in DocTerms(doc)
        THEN PlistOf(mp, t) @@ (did :> [op |-> "A", wdf |-> doc[t]])
        ELSE mp[t]]

\* An add half that writes ('A', wdf) over whatever entry is there.
PlistReplaceAdd_AlwaysA(mp, did, doc) ==
    [t \in DOMAIN mp \cup DocTerms(doc) |->
        IF t \in DocTerms(doc)
        THEN (did :> [op |-> "A", wdf |-> doc[t]]) @@ PlistOf(mp, t)
        ELSE mp[t]]

\* Lines 1388-1403: an existing entry becomes ('M', wdf), else ('A', wdf).
PlistReplaceAdd(mp, did, doc) ==
    [t \in DOMAIN mp \cup DocTerms(doc) |->
        IF t \in DocTerms(doc)
        THEN IF did \in DOMAIN PlistOf(mp, t)
             THEN (did :> [op |-> "M", wdf |-> doc[t]]) @@ mp[t]
             ELSE (did :> [op |-> "A", wdf |-> doc[t]]) @@ PlistOf(mp, t)
        ELSE mp[t]]

\* Assert at line 1138 or at line 1155 is false.
AddAssertFails(mp, dl, did, doc) ==
    \/ \E t \in DocTerms(doc) : did \in DOMAIN PlistOf(mp, t)
    \/ did \in DOMAIN dl /\ dl[did] # -1

\* Assert at line 1398 is false.
ReplaceAssertFails(mp, did, doc) ==
    \E t \in DocTerms(doc) :
        did \in DOMAIN PlistOf(mp, t) /\ mp[t][did].op # "D"

\* ChertDatabaseStats::add_document and ::delete_document.
StatsAdd(st, len) ==
    [st EXCEPT !.doccount = @ + 1, !.total_doclen = @ + len]

StatsDelete(st, len) ==
    [st EXCEPT !.doccount = @ - 1, !.total_doclen = @ - len]

\* ChertPostListTable::merge_changes on the postlist of one term.
MergeOne(pl, m) ==
    [d \in (DOMAIN pl \cup {x \in DOMAIN m : m[x].op # "D"})
              \ {x \in DOMAIN m : m[x].op = "D"} |->
        IF d \in DOMAIN m THEN m[d].wdf ELSE pl[d]]

merge_changes(pls, mp) ==
    [t \in Terms |-> IF t \in DOMAIN mp THEN MergeOne(pls[t], mp[t])
                     ELSE pls[t]]

RemoveKey(f, k) == [x \in DOMAIN f \ {k} |-> f[x]]

\* merge_changes, the freq_deltas: the termfreq and the collection
\* frequency kept with each posting list move by the deltas.
merge_freqs(fr, fd) ==
    [t \in Terms |->
        IF t \in DOMAIN fd
        THEN [termfreq |-> fr[t].termfreq + fd[t].termfreq,
              collfreq |-> fr[t].collfreq + fd[t].collfreq]
        ELSE fr[t]]

\* The tables tb with freq_deltas fd merged in.
FreqsMerged(tb, fd) == [tb EXCEPT !.freqs = merge_freqs(@, fd)]

\* delete_document without line 1256: the buffered length of the deleted
\* document is left as it was.
DoclenRemoved_Unmarked(dl, did) == dl

\* Line 1256, doclens[did] = -1: mark this document as removed.
DoclenRemoved(dl, did) == (did :> -1) @@ dl

\* The document lengths part of merge_changes: a buffered length replaces
\* the stored one, the sentinel -1 removes the entry.
merge_doclens(dls, dl) ==
    [d \in (DOMAIN dls \cup DOMAIN dl) \ {x \in DOMAIN dl : dl[x] = -1} |->
        IF d \in DOMAIN dl THEN dl[d] ELSE dls[d]]

(***************************************************************************)
(* A flush that forgets line 1068, stats.write(postlist_table): the        *)
(* statistics of the table stay those of the previous flush.               *)
(***************************************************************************)
Flushed_NoStatsWrite(tb, st, mp, dl) ==
    [tb EXCEPT !.postlists = merge_changes(tb.postlists, mp),
               !.doclens = merge_doclens(tb.doclens, dl),
               !.modified = TRUE]

\* flush_postlist_changes applied to tables tb with stats st, buffered
\* postings mp and buffered lengths dl: merge_changes and stats.write,
\* which writes the statistics into the postlist table.
Flushed(tb, st, mp, dl) ==
    [tb EXCEPT !.postlists = merge_changes(tb.postlists, mp),
               !.doclens = merge_doclens(tb.doclens, dl),
               !.stats = st,
               !.modified = TRUE]

\* ChertDatabase::apply on the writer's tables: nothing when no table is
\* modified (lines 729-737), else the tables are committed.
ApplyCommits(tb) == tb.modified

Applied(tb) == [tb EXCEPT !.modified = FALSE]

\* A cancel() that forgets line 1593, stats.read(postlist_table).
CancelEffect_NoStatsRead ==
    /\ tables' = committed
    /\ stats' = stats
    /\ freq_deltas' = EmptyMap
    /\ doclens' = EmptyMap
    /\ mod_plists' = EmptyMap
    /\ change_count' = 0
    /\ committed' = committed

\* A cancel() that leaves change_count and the three maps as they are.
CancelEffect_KeepsBuffer ==
    /\ tables' = committed
    /\ stats' = committed.stats
    /\ UNCHANGED <<freq_deltas, doclens, mod_plists, change_count, committed>>

\* ChertWritableDatabase::cancel: every table drops its uncommitted
\* changes, stats are read again, the three maps are cleared.
CancelEffect ==
    /\ tables' = committed
    /\ stats' = committed.stats
    /\ freq_deltas' = EmptyMap
    /\ doclens' = EmptyMap
    /\ mod_plists' = EmptyMap
    /\ change_count' = 0
    /\ committed' = committed

AutoApplies_Always(active) == TRUE

\* Lines 1179, 1268, 1447: if (!transaction_active()) apply().
AutoApplies(active) == ~active

\* The end of a successful add, delete or replace (lines 1177-1180,
\* 1266-1269, 1445-1448), the call having produced tb, st, fd, dl, mp.
CountChange(tb, st, fd, dl, mp) ==
    /\ stats' = st
    /\ bres' = "ok"
    /\ IF change_count + 1 >= flush_threshold
       THEN /\ tables' = IF AutoApplies(transaction_active)
                         THEN Applied(Flushed(FreqsMerged(tb, fd), st, mp, dl))
                         ELSE Flushed(FreqsMerged(tb, fd), st, mp, dl)
            /\ committed' = IF AutoApplies(transaction_active)
                            THEN Applied(Flushed(FreqsMerged(tb, fd), st, mp, dl))
                            ELSE committed
            /\ freq_deltas' = EmptyMap
            /\ doclens' = EmptyMap
            /\ mod_plists' = EmptyMap
            /\ change_count' = 0
       ELSE /\ tables' = tb
            /\ committed' = committed
            /\ freq_deltas' = fd
            /\ doclens' = dl
            /\ mod_plists' = mp
            /\ change_count' = change_count + 1

\* The terms of doc whose positionlist_begin() != positionlist_end().
Positional(doc) == DocTerms(doc) \cap posterms

\* Lines 1141-1145 of add_document_: set_positionlist for each term of the
\* document that has positions; nothing is done for the other terms.
PosAdd(ps, did, doc) == ps \cup {<<did, t>> : t \in Positional(doc)}

\* Line 1219 of delete_document: delete_positionlist(did, tname) for every
\* term of the termlist stored for did.
PosDelete(ps, did, old) == ps \ {<<did, t>> : t \in DocTerms(old)}

\* Lines 1405-1411 of replace_document: for each term of the NEW document
\* set_positionlist if it has positions, delete_positionlist if not.  The
\* loop over the old termlist (lines 1325-1363) does not touch the
\* position table.
PosReplace(ps, did, doc) ==
    (ps \ {<<did, t>> : t \in DocTerms(doc)})
        \cup {<<did, t>> : t \in Positional(doc)}

\* ChertWritableDatabase::add_document_, entered with stats st.  A false
\* Assert throws in a build with assertions and does nothing otherwise.
add_document_(did, doc, len, st) ==
    IF TooLong(doc, len)
    THEN \* throw at line 1121, catch (...) at line 1158: cancel()
         /\ CancelEffect
         /\ bres' \in {"InvalidArgumentError"} \cup
                IF assertions /\ AddAssertFails(mod_plists, doclens, did, doc)
                THEN {"AssertionError"} ELSE {}
    ELSE IF assertions /\ AddAssertFails(mod_plists, doclens, did, doc)
    THEN CancelEffect /\ bres' = "AssertionError"
    ELSE CountChange([tables EXCEPT !.modified = TRUE,
                                    !.records = @ \cup {did},
                                    !.positions = PosAdd(@, did, doc),
                                    !.termlist = IF tables.termlist_open
                                                 THEN (did :> doc) @@ @
                                                 ELSE @],
                     StatsAdd(st, DocLength(doc)),
                     FreqAdd(freq_deltas, doc, 1),
                     (did :> DocLength(doc)) @@ doclens,
                     PlistInsert(mod_plists, did, doc))

\* ChertWritableDatabase::add_document: the next unused document id, or
\* DatabaseError when last_docid is Xapian::docid(-1), the largest docid,
\* which is MaxDid here.
add_document(doc, len) ==
    /\ IF stats.last_docid = MaxDid
       THEN /\ bres' = "DatabaseError"
            /\ UNCHANGED <<tables, committed, stats, freq_deltas, doclens,
                           mod_plists, change_count>>
       ELSE add_document_(stats.last_docid + 1, doc, len,
                          [stats EXCEPT !.last_docid = @ + 1])
    /\ UNCHANGED <<revvars, replvars, transaction_active, assertions, posterms,
                 modify_shortcut_docid>>

\* A delete_document whose early errors go through cancel().
ThrownBeforeTry_Cancels == CancelEffect

\* Lines 1191-1204 of delete_document come before its try block: what is
\* thrown there reaches the caller with nothing touched.
ThrownBeforeTry ==
    UNCHANGED <<tables, committed, stats, freq_deltas, doclens, mod_plists,
                change_count>>

\* ChertWritableDatabase::delete_document.
delete_document(did) ==
    /\ IF ~tables.termlist_open
       THEN \* line 1191: Database has no termlist
            bres' = "FeatureUnavailableError" /\ ThrownBeforeTry
       ELSE IF did \notin tables.records
       THEN \* record_table.delete_record(did) throws
            bres' = "DocNotFoundError" /\ ThrownBeforeTry
       ELSE IF did \notin DOMAIN tables.termlist
       THEN \* ChertTermList throws: catch (...) at line 1257
            CancelEffect /\ bres' = "DocNotFoundError"
       ELSE LET old == tables.termlist[did]
            IN CountChange([tables EXCEPT !.modified = TRUE,
                                          !.records = @ \ {did},
                                          !.positions =
                                              PosDelete(@, did, old),
                                          !.termlist = RemoveKey(@, did)],
                           StatsDelete(stats, DocLength(old)),
                           FreqAdd(freq_deltas, old, -1),
                           DoclenRemoved(doclens, did),
                           PlistDelete(mod_plists, did, old))
    /\ modify_shortcut_docid' =
           IF tables.termlist_open /\ modify_shortcut_docid = did THEN 0
           ELSE modify_shortcut_docid
    /\ UNCHANGED <<revvars, replvars, transaction_active, assertions, posterms>>

\* The document objects replace_document can be handed, as lines 1301-1316
\* tell them apart: "opened" is the object of the latest open_document(did)
\* with nothing modified in it, "stale" another object opened for the same
\* did, "other" any other document (a new one has docid 0) or the opened
\* object with its terms, data and values modified.
Objs == {"other", "stale", "opened"}

\* ChertPostListTable::document_exists: did has a document length in the
\* postlist table.
document_exists(did) == did \in DOMAIN tables.doclens

\* ChertWritableDatabase::replace_document.
replace_document(did, doc, len, obj) ==
    /\ obj # "other" => modify_shortcut_docid = did
    /\ obj = "opened" => did <= stats.last_docid /\ tables.termlist_open
    /\ modify_shortcut_docid' = IF /\ obj = "stale"
                                   /\ did <= stats.last_docid
                                   /\ tables.termlist_open
                                THEN 0 ELSE modify_shortcut_docid
    /\ IF did > stats.last_docid
       THEN \* lines 1280-1286
            add_document_(did, doc, len, [stats EXCEPT !.last_docid = did])
       ELSE IF ~tables.termlist_open
       THEN \* lines 1288-1296: an unused docid can still be replaced
            IF document_exists(did)
            THEN CancelEffect /\ bres' = "FeatureUnavailableError"
            ELSE add_document_(did, doc, len, stats)
       ELSE IF obj = "opened"
       THEN \* modifying, nothing modified: lines 1318-1432 are skipped
            CountChange(tables, stats, freq_deltas, doclens, mod_plists)
       ELSE IF did \notin DOMAIN tables.termlist
       THEN \* ChertTermList throws DocNotFoundError: lines 1433-1435
            add_document_(did, doc, len, stats)
       ELSE LET old == tables.termlist[did]
                fd1 == FreqAdd(freq_deltas, old, -1)
                mp1 == PlistDelete(mod_plists, did, old)
                st1 == StatsDelete(stats, DocLength(old))
            IN IF TooLong(doc, len)
               THEN \* throw at line 1378, catch (...) at line 1436
                    /\ CancelEffect
                    /\ bres' \in {"InvalidArgumentError"} \cup
                           IF assertions /\ ReplaceAssertFails(mp1, did, doc)
                           THEN {"AssertionError"} ELSE {}
               ELSE IF assertions /\ ReplaceAssertFails(mp1, did, doc)
               THEN CancelEffect /\ bres' = "AssertionError"
               ELSE CountChange([tables EXCEPT !.modified = TRUE,
                                               !.records = @ \cup {did},
                                               !.positions =
                                                   PosReplace(@, did, doc),
                                               !.termlist = (did :> doc) @@ @],
                                StatsAdd(st1, DocLength(doc)),
                                FreqAdd(fd1, doc, 1),
                                (did :> DocLength(doc)) @@ doclens,
                                PlistReplaceAdd(mp1, did, doc))
    /\ UNCHANGED <<revvars, replvars, transaction_active, assertions, posterms>>

\* ChertWritableDatabase::open_allterms: the buffered changes are flushed
\* (not committed) before the terms are listed.
open_allterms ==
    /\ IF change_count # 0
       THEN /\ tables' = Flushed(FreqsMerged(tables, freq_deltas), stats,
                                  mod_plists, doclens)
            /\ freq_deltas' = EmptyMap
            /\ doclens' = EmptyMap
            /\ mod_plists' = EmptyMap
            /\ change_count' = 0
       ELSE UNCHANGED <<tables, freq_deltas, doclens, mod_plists,
                        change_count>>
    /\ bres' = "listed"
    /\ UNCHANGED <<revvars, replvars, committed, stats, transaction_active, assertions, posterms,
                   modify_shortcut_docid>>

\* ChertWritableDatabase::get_doclength: the buffered length if there is
\* one (DocNotFoundError for the sentinel), else the one of the table.
HasDoclength(did) ==
    IF did \in DOMAIN doclens THEN doclens[did] # -1
    ELSE did \in DOMAIN tables.doclens

\* ChertWritableDatabase::open_document: ChertDatabase::open_document
\* checks that the document exists unless lazy, then the shortcut is set.
open_document(did, lazy) ==
    /\ IF ~lazy /\ ~HasDoclength(did)
       THEN bres' = "DocNotFoundError" /\ UNCHANGED modify_shortcut_docid
       ELSE bres' = "opened" /\ modify_shortcut_docid' = did
    /\ UNCHANGED <<revvars, replvars, tables, committed, stats, freq_deltas, doclens,
                   mod_plists, change_count, transaction_active, assertions, posterms>>

\* commit(): flush_postlist_changes if change_count, then apply().
CommitEffect ==
    /\ tables' = Applied(IF change_count # 0
                         THEN Flushed(FreqsMerged(tables, freq_deltas), stats,
                                      mod_plists, doclens)
                         ELSE tables)
    /\ committed' = tables'
    /\ freq_deltas' = EmptyMap
    /\ doclens' = EmptyMap
    /\ mod_plists' = EmptyMap
    /\ change_count' = 0
    /\ stats' = stats

CommitRefused_Never(active) == FALSE

\* Line 1058: if (transaction_active()) throw InvalidOperationError.
CommitRefused(active) == active

\* ChertWritableDatabase::commit.
Writable_commit ==
    /\ IF CommitRefused(transaction_active)
       THEN /\ bres' = "InvalidOperationError"
            /\ UNCHANGED <<tables, committed, stats, freq_deltas, doclens,
                           mod_plists, change_count>>
       ELSE CommitEffect /\ bres' = "ok"
    /\ UNCHANGED <<revvars, replvars, transaction_active, assertions, posterms,
                 modify_shortcut_docid>>

\* ChertWritableDatabase::cancel, called by the user.
Writable_cancel ==
    /\ change_count > 0 \/ tables # committed
    /\ CancelEffect
    /\ bres' = "cancelled"
    /\ UNCHANGED <<revvars, replvars, transaction_active, assertions, posterms,
                 modify_shortcut_docid>>

\* Database::Internal::begin_transaction of a flushed transaction:
\* commit(), then the transaction is active.
begin_transaction ==
    /\ ~transaction_active
    /\ CommitEffect
    /\ transaction_active' = TRUE
    /\ bres' = "begun"
    /\ UNCHANGED <<revvars, replvars, assertions, posterms, modify_shortcut_docid>>

\* Database::Internal::commit_transaction: the transaction is over, then
\* commit().
commit_transaction ==
    /\ transaction_active
    /\ CommitEffect
    /\ transaction_active' = FALSE
    /\ bres' = "committed"
    /\ UNCHANGED <<revvars, replvars, assertions, posterms, modify_shortcut_docid>>

\* Database::Internal::cancel_transaction: the transaction is over, then
\* cancel().
cancel_transaction ==
    /\ transaction_active
    /\ CancelEffect
    /\ transaction_active' = FALSE
    /\ bres' = "cancelled"
    /\ UNCHANGED <<revvars, replvars, assertions, posterms, modify_shortcut_docid>>

BufInit ==
    /\ InitRev /\ NoPosList /\ NoCopy /\ max_changesets = 0
    /\ InitBuf /\ assertions \in BOOLEAN /\ posterms = {} /\ NoRepl /\ NoOpeners

BufNext ==
    \/ \E doc \in Docs : \E len \in TermLens :
           stats.last_docid < MaxDid /\ add_document(doc, len)
    \/ \E did \in Dids : delete_document(did)
    \/ \E did \in Dids : \E doc \in Docs : \E len \in TermLens :
           replace_document(did, doc, len, "other")
    \/ Writable_commit
    \/ Writable_cancel

BufSpec == BufInit /\ [][BufNext]_vars

\* The write buffer with documents opened for modification: documents of
\* one term, every term within MAX_SAFE_TERM_LENGTH.
ShortcutDocs == {doc \in Docs : doc["b"] = 0}

\* Documents of at most one term, which occurs once.
PosDocs == {doc \in Docs : DocLength(doc) <= 1}

ShortcutInit ==
    /\ InitRev /\ NoPosList /\ NoCopy /\ max_changesets = 0
    /\ InitBuf /\ assertions \in BOOLEAN /\ posterms = {} /\ NoRepl /\ NoOpeners

ShortcutNext ==
    \/ \E doc \in ShortcutDocs :
           stats.last_docid < MaxDid
           /\ add_document(doc, MAX_SAFE_TERM_LENGTH)
    \/ \E did \in Dids : delete_document(did)
    \/ \E did \in Dids : \E doc \in ShortcutDocs : \E obj \in Objs :
           replace_document(did, doc, MAX_SAFE_TERM_LENGTH, obj)
    \/ \E did \in Dids : \E lazy \in BOOLEAN : open_document(did, lazy)
    \/ open_allterms
    \/ Writable_commit
    \/ Writable_cancel

ShortcutSpec == ShortcutInit /\ [][ShortcutNext]_vars

\* The write buffer with transactions: documents of one term, every term
\* within MAX_SAFE_TERM_LENGTH, a build without assertions.
TxnInit ==
    /\ InitRev /\ NoPosList /\ NoCopy /\ max_changesets = 0
    /\ InitBuf /\ assertions = FALSE /\ posterms = {} /\ NoRepl /\ NoOpeners

TxnNext ==
    \/ \E doc \in ShortcutDocs :
           stats.last_docid < MaxDid
           /\ add_document(doc, MAX_SAFE_TERM_LENGTH)
    \/ \E did \in Dids : delete_document(did)
    \/ \E did \in Dids : \E doc \in ShortcutDocs :
           replace_document(did, doc, MAX_SAFE_TERM_LENGTH, "other")
    \/ Writable_commit
    \/ Writable_cancel
    \/ begin_transaction
    \/ commit_transaction
    \/ cancel_transaction

TxnSpec == TxnInit /\ [][TxnNext]_vars

\* The write buffer with every error the three operations raise, the one
\* of an add_document that has run out of docids included: documents of
\* one term, a database with or without termlist table.
ErrorInit ==
    /\ InitRev /\ NoPosList /\ NoCopy /\ max_changesets = 0
    /\ \E b \in BOOLEAN : tables = [NoTables EXCEPT !.termlist_open = b]
    /\ committed = tables
    /\ stats = NoStats
    /\ BufferEmpty(freq_deltas, doclens, mod_plists)
    /\ change_count = 0
    /\ transaction_active = FALSE
    /\ bres = "none"
    /\ modify_shortcut_docid = 0
    /\ assertions \in BOOLEAN /\ posterms = {} /\ NoRepl /\ NoOpeners

ErrorNext ==
    \/ \E doc \in ShortcutDocs : \E len \in TermLens : add_document(doc, len)
    \/ \E did \in Dids : delete_document(did)
    \/ \E did \in Dids : \E doc \in ShortcutDocs : \E len \in TermLens :
           replace_document(did, doc, len, "other")
    \/ Writable_commit
    \/ Writable_cancel

ErrorSpec == ErrorInit /\ [][ErrorNext]_vars

\* The caller builds its next documents with positions for the terms in S
\* (Document::add_posting) and without for the others (add_term).
Index_Positions(S) ==
    /\ posterms' = S
    /\ posterms # S
    /\ UNCHANGED <<revvars, replvars, tables, committed, stats, freq_deltas,
                   doclens, mod_plists, change_count, transaction_active,
                   assertions, bres, modify_shortcut_docid>>

\* ChertDatabase::has_positions.
has_positions == tables.positions # {}

\* ChertDatabase::open_position_list(did, term) has positions to give.
open_position_list(did, t) == <<did, t>> \in tables.positions

\* A writable database with its termlist table, a build without
\* assertions, terms within MAX_SAFE_TERM_LENGTH.
PosInit ==
    /\ InitRev /\ NoPosList /\ NoCopy /\ max_changesets = 0
    /\ InitBuf /\ assertions = FALSE /\ posterms \in SUBSET Terms
    /\ NoRepl /\ NoOpeners

PosNext ==
    \/ \E doc \in PosDocs :
           /\ stats.last_docid < MaxDid
           /\ add_document(doc, MAX_SAFE_TERM_LENGTH)
    \/ \E did \in Dids : delete_document(did)
    \/ \E did \in Dids : \E doc \in PosDocs :
           replace_document(did, doc, MAX_SAFE_TERM_LENGTH, "other")
    \/ \E S \in SUBSET Terms : Index_Positions(S)
    \/ Writable_commit
    \/ Writable_cancel

PosSpec == PosInit /\ [][PosNext]_vars

(***************************************************************************)
(* Part III: ChertDatabase::write_changesets_to_fd, the driver that sends  *)
(* a follower whole-database copies and changesets, while a writer commits *)
(* new revisions in the same directory.                                    *)
(***************************************************************************)

Min2(a, b) == IF a <= b THEN a ELSE b

\* changes<n> as the writer leaves it when committing n -> n + 1
\* (set_revision_number, lines 413-417).
GoodChangeset(n) == [start |-> n, end |-> n + 1]

\* The files changes<n>, ..., after the revisions have been moved by base:
\* files named below base are never looked for again and are left out.
Shift(ch, base) ==
    [n \in {m - base : m \in {x \in DOMAIN ch : x >= base}} |->
        [start |-> ch[n + base].start - base, end |-> ch[n + base].end - base]]

\* The revisions after a step, kept as distances from the lowest revision
\* the driver can still refer to.
SetRevs(s, r, d, f, ch) ==
    LET base == Min2(s, r)
    IN  /\ start_rev_num' = s - base
        /\ r_rev' = r - base
        /\ d_rev' = d - base
        /\ follower_rev' = f - base
        /\ changes' = Shift(ch, base)

\* Lines 578-591: the call starts with the revision the follower asked for
\* (unpack_uint of the revision string; need_whole_db is set when it does
\* not parse) and the full budget of copies.
ReplInit ==
    /\ InitRev /\ NoPosList /\ NoCopy /\ max_changesets = 0 /\ InitBuf /\ assertions = FALSE /\ posterms = {}
    /\ NoOpeners
    /\ rpc = "loop"
    /\ rres = "none"
    /\ need_whole_db \in BOOLEAN
    /\ whole_db_copies_left = MAX_DB_COPIES_PER_CONVERSATION
    /\ start_rev_num \in 0..1
    /\ r_rev \in 0..1
    /\ Min2(start_rev_num, r_rev) = 0
    /\ d_rev \in r_rev..MaxGap
    /\ \/ changes = EmptyMap
       \/ changes = [n \in 0..(d_rev - 1) |-> GoodChangeset(n)]
    /\ r_uuid = 0
    /\ d_uuid = 0
    /\ start_uuid = r_uuid
    /\ fullcopy_count = 0
    /\ last_msg = "none"
    /\ follower_rev = start_rev_num
    /\ streamed = NoneStreamed
    /\ footer = NoFooter

\* ChertDatabase::reopen as the driver sees it: the handle moves to the
\* latest revision; the version file, hence the uuid, is read again only
\* when the handle was at revision 0 (line 239).
ReopenedUuids == {r_uuid, d_uuid}

\* A reopen() that can raise whatever the directory holds.
ReopenMayRaise_Always == TRUE

\* reopen() raises when open_tables_consistent runs out of tries, which
\* takes a revision newer than the one the handle has open.
ReopenMayRaise == d_rev # r_rev

\* The revision put in REPL_REPLY_DB_FOOTER: the one open after reopen()
\* when the uuid is still the one of the copy (lines 629-631), else
\* start_rev_num + 1 (line 644).
FooterRevision_Header(matched) == IF matched THEN d_rev ELSE start_rev_num

FooterRevision(matched) == IF matched THEN d_rev ELSE start_rev_num + 1

\* Line 604, whole_db_copies_left == 0.
BudgetSpent_Never(left) == FALSE

BudgetSpent(left) == left = 0

\* Lines 600-620: the budget test, then a whole-database copy.
\* send_whole_database puts get_revision_number() in REPL_REPLY_DB_HEADER.
WCF_WholeDb ==
    /\ rpc = "loop"
    /\ need_whole_db
    /\ IF BudgetSpent(whole_db_copies_left)
       THEN /\ last_msg' = "REPL_REPLY_FAIL"
            /\ rres' = "REPL_REPLY_FAIL"
            /\ rpc' = "done"
            /\ UNCHANGED <<need_whole_db, whole_db_copies_left, start_rev_num,
                           start_uuid, fullcopy_count, r_rev, d_rev, changes,
                           follower_rev, footer>>
       ELSE /\ whole_db_copies_left' = whole_db_copies_left - 1
            /\ footer' = NoFooter
            /\ SetRevs(r_rev, r_rev, d_rev, r_rev, changes)
            /\ start_uuid' = r_uuid
            /\ last_msg' = "REPL_REPLY_DB_FILEDATA"
            /\ fullcopy_count' = fullcopy_count + 1
            /\ need_whole_db' = FALSE
            /\ rpc' = "copied"
            /\ rres' = rres
    /\ UNCHANGED <<r_uuid, d_uuid, streamed, revvars, bufvars,
                   ctorvars, copyvars, plvars>>

\* Lines 622-647: reopen() after the copy, then REPL_REPLY_DB_FOOTER.
WCF_AfterCopy ==
    /\ rpc = "copied"
    /\ \/ /\ ReopenMayRaise
          /\ rres' = "DatabaseModifiedError"
          /\ rpc' = "done"
          /\ UNCHANGED <<need_whole_db, start_rev_num, r_rev, r_uuid, d_rev,
                         changes, last_msg, follower_rev, footer>>
       \/ /\ \E u \in ReopenedUuids :
                /\ r_uuid' = u
                /\ need_whole_db' = (start_uuid # u)
                /\ footer' = [sent |-> footer.sent + 1,
                              matched |-> (start_uuid = u),
                              ahead |-> FooterRevision(start_uuid = u)
                                            - follower_rev]
          /\ SetRevs(start_rev_num, d_rev, d_rev, follower_rev, changes)
          /\ last_msg' = "REPL_REPLY_DB_FOOTER"
          /\ rpc' = "loop"
          /\ rres' = rres
    /\ UNCHANGED <<whole_db_copies_left, start_uuid, fullcopy_count,
                   d_uuid, streamed, revvars, bufvars,
                   ctorvars, copyvars, plvars>>

\* Lines 649-659: have all the updates been sent?
WCF_Check ==
    /\ rpc = "loop"
    /\ ~need_whole_db
    /\ IF start_rev_num >= r_rev
       THEN \/ /\ ReopenMayRaise
               /\ rres' = "DatabaseModifiedError"
               /\ rpc' = "done"
               /\ UNCHANGED <<need_whole_db, start_rev_num, r_rev, r_uuid,
                              d_rev, changes, last_msg, follower_rev>>
            \/ \E u \in ReopenedUuids :
              /\ r_uuid' = u
              /\ SetRevs(start_rev_num, d_rev, d_rev, follower_rev, changes)
              /\ IF start_uuid # u
                 THEN /\ need_whole_db' = TRUE
                      /\ rpc' = "loop"
                      /\ UNCHANGED <<rres, last_msg>>
                 ELSE IF start_rev_num >= d_rev
                 THEN \* break, line 694
                      /\ last_msg' = "REPL_REPLY_END_OF_CHANGES"
                      /\ rres' = "REPL_REPLY_END_OF_CHANGES"
                      /\ rpc' = "done"
                      /\ UNCHANGED need_whole_db
                 ELSE /\ rpc' = "lookup"
                      /\ UNCHANGED <<rres, last_msg, need_whole_db>>
       ELSE /\ rpc' = "lookup"
            /\ UNCHANGED <<rres, last_msg, need_whole_db, r_uuid,
                           start_rev_num, r_rev, d_rev, follower_rev, changes>>
    /\ UNCHANGED <<whole_db_copies_left, start_uuid, fullcopy_count, d_uuid,
                   streamed, footer, revvars, bufvars,
                   ctorvars, copyvars, plvars>>

\* The header check without the test of line 671.
HeaderOk_EndOnly(cs, n) == cs.start < cs.end

\* Lines 671-676: the header of changes<start_rev_num> is checked against
\* the name of the file.
HeaderOk(cs, n) == cs.start = n /\ cs.start < cs.end

\* Lines 661-691: look for changes<start_rev_num>; send it and move
\* start_rev_num to its end revision, or mark that a copy is needed.  The
\* follower applies the changeset it receives and is then at its end.
WCF_Lookup ==
    /\ rpc = "lookup"
    /\ IF start_rev_num \in DOMAIN changes
       THEN LET cs == changes[start_rev_num]
            IN IF ~HeaderOk(cs, start_rev_num)
               THEN /\ rres' = "DatabaseError"
                    /\ rpc' = "done"
                    /\ UNCHANGED <<need_whole_db, start_rev_num, r_rev, d_rev,
                                   changes, last_msg, follower_rev, streamed>>
               ELSE /\ last_msg' = "REPL_REPLY_CHANGESET"
                    /\ streamed' = [sent |-> TRUE,
                                    gap |-> cs.start - follower_rev,
                                    len |-> cs.end - cs.start]
                    /\ SetRevs(cs.end, r_rev, d_rev, cs.end, changes)
                    /\ rpc' = "loop"
                    /\ UNCHANGED <<rres, need_whole_db>>
       ELSE /\ need_whole_db' = TRUE
            /\ rpc' = "loop"
            /\ UNCHANGED <<rres, start_rev_num, r_rev, d_rev, changes,
                           last_msg, follower_rev, streamed>>
    /\ UNCHANGED <<whole_db_copies_left, start_uuid, fullcopy_count, r_uuid,
                   d_uuid, footer, revvars, bufvars,
                   ctorvars, copyvars, plvars>>

WCF_Step == WCF_WholeDb \/ WCF_AfterCopy \/ WCF_Check \/ WCF_Lookup

\* A writer commits the next revision (ChertDatabase::apply), leaving the
\* changeset changes<old revision> when max_changesets > 0.
Writer_Commit(cs) ==
    /\ rpc # "idle"
    /\ d_rev < MaxGap
    /\ d_rev' = d_rev + 1
    /\ changes' = IF cs THEN (d_rev :> GoodChangeset(d_rev)) @@ changes
                  ELSE changes
    /\ UNCHANGED <<rpc, rres, need_whole_db, whole_db_copies_left,
                   start_rev_num, start_uuid, fullcopy_count, r_rev, r_uuid,
                   d_uuid, last_msg, follower_rev, streamed, footer, revvars, bufvars,
                   ctorvars, copyvars, plvars>>

\* A changeset file is removed from the directory.
Changeset_Remove(n) ==
    /\ rpc # "idle"
    /\ n \in DOMAIN changes
    /\ changes' = RemoveKey(changes, n)
    /\ UNCHANGED <<rpc, rres, need_whole_db, whole_db_copies_left,
                   start_rev_num, start_uuid, fullcopy_count, r_rev, r_uuid,
                   d_rev, d_uuid, last_msg, follower_rev, streamed, footer, revvars,
                   bufvars, ctorvars, copyvars, plvars>>

\* The directory holds a file changes<n> whose header is not the one of the
\* commit n -> n + 1.
Changeset_Stray(n, st, en) ==
    /\ rpc # "idle"
    /\ n \in 0..(d_rev - 1)
    /\ [start |-> st, end |-> en] # GoodChangeset(n)
    /\ changes' = (n :> [start |-> st, end |-> en]) @@ changes
    /\ changes' # changes
    /\ UNCHANGED <<rpc, rres, need_whole_db, whole_db_copies_left,
                   start_rev_num, start_uuid, fullcopy_count, r_rev, r_uuid,
                   d_rev, d_uuid, last_msg, follower_rev, streamed, footer, revvars,
                   bufvars, ctorvars, copyvars, plvars>>

\* The database in the directory is replaced by another one.
Database_Replace ==
    /\ rpc # "idle"
    /\ d_uuid' = 1 - d_uuid
    /\ UNCHANGED <<rpc, rres, need_whole_db, whole_db_copies_left,
                   start_rev_num, start_uuid, fullcopy_count, r_rev, r_uuid,
                   d_rev, changes, last_msg, follower_rev, streamed, footer, revvars,
                   bufvars, ctorvars, copyvars, plvars>>

ReplNext ==
    \/ WCF_WholeDb
    \/ WCF_AfterCopy
    \/ WCF_Check
    \/ WCF_Lookup
    \/ \E cs \in BOOLEAN : Writer_Commit(cs)
    \/ \E n \in 0..MaxGap : Changeset_Remove(n)
    \/ \E n \in 0..MaxGap : \E st \in {n, n + 1} : \E en \in {n, n + 1, n + 2} :
           Changeset_Stray(n, st, en)
    \/ Database_Replace

ReplSpec == ReplInit /\ [][ReplNext]_vars

\* The driver is a running call: it is not stopped between two steps.
FairReplSpec == ReplSpec /\ WF_vars(WCF_Step)

(***************************************************************************)
(* send_whole_database taken one file at a time, while files of the        *)
(* directory come and go.                                                  *)
(***************************************************************************)

\* A message of the copy: its type, and the leaf name it is about.
Msg(type, leaf) == [type |-> type, leaf |-> leaf]

\* Files a database can lack: those of the synonym and spelling tables,
\* which exist only once written to, and the second base file of a table.
LazyFiles(tbl) == {tbl \o ".DB", tbl \o ".baseA", tbl \o ".baseB"}

BaseBFiles == {t \o ".baseB" : t \in Tables}

\* The files whose loss during a copy is followed here.
CoreFiles == {"record.DB", "postlist.DB", "postlist.baseA", "iamchert"}

\* Lines 600-613 and 536-541: the budget test, then the start of a copy
\* with REPL_REPLY_DB_HEADER.
WCF_CopyHeader ==
    /\ rpc = "loop"
    /\ need_whole_db
    /\ IF BudgetSpent(whole_db_copies_left)
       THEN /\ last_msg' = "REPL_REPLY_FAIL"
            /\ rres' = "REPL_REPLY_FAIL"
            /\ rpc' = "done"
            /\ UNCHANGED <<whole_db_copies_left, start_rev_num, start_uuid,
                           r_rev, d_rev, changes, follower_rev, footer,
                           fpos, sent>>
       ELSE /\ whole_db_copies_left' = whole_db_copies_left - 1
            /\ footer' = NoFooter
            /\ SetRevs(r_rev, r_rev, d_rev, r_rev, changes)
            /\ start_uuid' = r_uuid
            /\ last_msg' = "REPL_REPLY_DB_HEADER"
            /\ sent' = <<Msg("REPL_REPLY_DB_HEADER", "")>>
            /\ fpos' = 1
            /\ rpc' = "copying"
            /\ rres' = rres
    /\ UNCHANGED <<need_whole_db, fullcopy_count, r_uuid, d_uuid, streamed,
                   dirfiles, announced, revvars, bufvars, ctorvars,
                   plvars>>

\* The copy moves to the next name; after the last one
\* send_whole_database returns and lines 617-620 are run.
NextFile ==
    IF fpos = Len(filenames)
    THEN /\ fpos' = 0
         /\ rpc' = "copied"
         /\ fullcopy_count' = fullcopy_count + 1
         /\ need_whole_db' = FALSE
    ELSE /\ fpos' = fpos + 1
         /\ UNCHANGED <<rpc, fullcopy_count, need_whole_db>>

\* A copy that announces every name, the file being there or not.
FileExists_Always(leaf) == TRUE

\* Line 558, file_exists(filepath).
FileExists(leaf) == leaf \in dirfiles

\* Lines 555-562: the file is looked for and, when it is there, its name
\* is sent.
WCF_CopyFile ==
    /\ rpc = "copying"
    /\ ~announced
    /\ IF FileExists(filenames[fpos])
       THEN /\ sent' = Append(sent, Msg("REPL_REPLY_DB_FILENAME",
                                        filenames[fpos]))
            /\ last_msg' = "REPL_REPLY_DB_FILENAME"
            /\ announced' = TRUE
            /\ UNCHANGED <<fpos, rpc, fullcopy_count, need_whole_db>>
       ELSE /\ NextFile
            /\ UNCHANGED <<sent, last_msg, announced>>
    /\ UNCHANGED <<rres, whole_db_copies_left, start_rev_num, start_uuid,
                   r_rev, r_uuid, d_rev, d_uuid, changes, follower_rev,
                   streamed, footer, dirfiles, revvars, bufvars, ctorvars,
                   plvars>>

\* Line 563, conn.send_file: the file is sent, or an error is raised when
\* it has gone since line 558.
WCF_SendFile ==
    /\ rpc = "copying"
    /\ announced
    /\ announced' = FALSE
    /\ IF filenames[fpos] \in dirfiles
       THEN /\ sent' = Append(sent, Msg("REPL_REPLY_DB_FILEDATA",
                                        filenames[fpos]))
            /\ last_msg' = "REPL_REPLY_DB_FILEDATA"
            /\ NextFile
            /\ rres' = rres
       ELSE /\ rres' = "NetworkError"
            /\ rpc' = "done"
            /\ fpos' = 0
            /\ UNCHANGED <<sent, last_msg, fullcopy_count, need_whole_db>>
    /\ UNCHANGED <<whole_db_copies_left, start_rev_num, start_uuid,
                   r_rev, r_uuid, d_rev, d_uuid, changes, follower_rev,
                   streamed, footer, dirfiles, revvars, bufvars, ctorvars,
                   plvars>>

\* A file of the directory is removed while the copy is being made.
File_Remove(leaf) ==
    /\ rpc = "copying"
    /\ leaf \in dirfiles \cap CoreFiles
    /\ Cardinality(CoreFiles \ dirfiles) < MaxLost
    /\ dirfiles' = dirfiles \ {leaf}
    /\ UNCHANGED <<wcfvars, fpos, announced, sent, revvars, bufvars,
                   ctorvars, plvars>>

\* The call starts with a follower that needs a copy; the directory lacks
\* the files of some of the tables written to lazily, and maybe every
\* second base file.
CopyInit ==
    /\ InitRev /\ NoPosList /\ max_changesets = 0 /\ InitBuf /\ assertions = FALSE /\ posterms = {}
    /\ NoOpeners
    /\ rpc = "loop"
    /\ rres = "none"
    /\ need_whole_db = TRUE
    /\ whole_db_copies_left = MAX_DB_COPIES_PER_CONVERSATION
    /\ start_rev_num = 0
    /\ r_rev = 0
    /\ d_rev \in 0..1
    /\ changes = EmptyMap
    /\ r_uuid = 0
    /\ d_uuid = 0
    /\ start_uuid = r_uuid
    /\ fullcopy_count = 0
    /\ last_msg = "none"
    /\ follower_rev = start_rev_num
    /\ streamed = NoneStreamed
    /\ footer = NoFooter
    /\ \E lazy \in SUBSET {"synonym", "spelling"} : \E second \in BOOLEAN :
          dirfiles = (AllFiles \ UNION {LazyFiles(t) : t \in lazy})
                         \ (IF second THEN {} ELSE BaseBFiles)
    /\ fpos = 0
    /\ announced = FALSE
    /\ sent = <<>>

CopyNext ==
    \/ WCF_CopyHeader
    \/ WCF_CopyFile
    \/ WCF_SendFile
    \/ WCF_AfterCopy
    \/ WCF_Check
    \/ WCF_Lookup
    \/ \E cs \in BOOLEAN : Writer_Commit(cs)
    \/ Database_Replace
    \/ \E leaf \in CoreFiles : File_Remove(leaf)

CopySpec == CopyInit /\ [][CopyNext]_vars

(***************************************************************************)
(* Part IV: ChertDatabase::ChertDatabase for the writable actions, run by  *)
(* two processes on one directory.  The tables are taken as a whole: the   *)
(* directory holds no database, or a database at some latest revision.     *)
(***************************************************************************)

\* ChertDatabase::database_exists
database_exists == dbdir.state = "db"

\* ChertLock::lock: the lock file cannot be opened in a missing directory,
\* and is in use while another handle holds it.
LockReason ==
    IF dbdir.state = "nodir" THEN "UNKNOWN"
    ELSE IF flintlock # "none" THEN "INUSE"
    ELSE "SUCCESS"

LockAcquired_Always(why) == TRUE

\* get_database_write_lock, line 507: why != ChertLock::SUCCESS throws.
LockAcquired(why) == why = "SUCCESS"

\* get_database_write_lock, lines 508-526: the error thrown.
LockError(why, creating) ==
    IF why = "UNKNOWN" /\ ~creating /\ ~database_exists
    THEN "DatabaseOpeningError"
    ELSE "DatabaseLockError"

\* create_and_open_tables: the six tables are created anew, at revision 0.
CreatedTables == [state |-> "db", rev |-> 0]

\* The constructor up to the call of get_database_write_lock, lines
\* 131-161: the existence test, the directory made if it is missing, and
\* DB_CREATE refused on a database that exists.
Ctor_Check(p, a) ==
    /\ cpc[p] = "none"
    /\ cact' = [cact EXCEPT ![p] = a]
    /\ IF a # "DB_OPEN" /\ ~database_exists
       THEN /\ dbdir' = IF dbdir.state = "nodir"
                        THEN [dbdir EXCEPT !.state = "empty"]
                        ELSE dbdir
            /\ cpc' = [cpc EXCEPT ![p] = "lock_creating"]
            /\ cres' = [cres EXCEPT ![p] = "none"]
       ELSE IF a = "DB_CREATE"
       THEN /\ cres' = [cres EXCEPT ![p] = "DatabaseCreateError"]
            /\ UNCHANGED <<dbdir, cpc>>
       ELSE /\ cpc' = [cpc EXCEPT ![p] = "lock_opening"]
            /\ cres' = [cres EXCEPT ![p] = "none"]
            /\ dbdir' = dbdir
    /\ UNCHANGED <<flintlock, hrev, revvars, bufvars, wcfvars, copyvars, plvars>>

\* The rest of the constructor: get_database_write_lock(true) and
\* create_and_open_tables (lines 151-154), or get_database_write_lock(false)
\* and then create_and_open_tables for DB_CREATE_OR_OVERWRITE or
\* open_tables_consistent (lines 163-172).  A constructor that throws
\* leaves no handle, and its lock goes with it.
Ctor_Lock(p) ==
    /\ cpc[p] \in {"lock_creating", "lock_opening"}
    /\ LET creating == cpc[p] = "lock_creating"
           why == LockReason
       IN IF ~LockAcquired(why)
          THEN /\ cres' = [cres EXCEPT ![p] = LockError(why, creating)]
               /\ cpc' = [cpc EXCEPT ![p] = "none"]
               /\ UNCHANGED <<dbdir, flintlock, hrev>>
          ELSE IF creating \/ cact[p] = "DB_CREATE_OR_OVERWRITE"
          THEN /\ dbdir' = CreatedTables
               /\ flintlock' = p
               /\ hrev' = [hrev EXCEPT ![p] = 0]
               /\ cpc' = [cpc EXCEPT ![p] = "open"]
               /\ cres' = [cres EXCEPT ![p] = "ok"]
          ELSE IF ~database_exists
          THEN \* version_file.read_and_check() throws (line 239)
               /\ cres' = [cres EXCEPT ![p] = "DatabaseOpeningError"]
               /\ cpc' = [cpc EXCEPT ![p] = "none"]
               /\ UNCHANGED <<dbdir, flintlock, hrev>>
          ELSE /\ flintlock' = p
               /\ hrev' = [hrev EXCEPT ![p] = dbdir.rev]
               /\ cpc' = [cpc EXCEPT ![p] = "open"]
               /\ cres' = [cres EXCEPT ![p] = "ok"]
               /\ dbdir' = dbdir
    /\ UNCHANGED <<cact, revvars, bufvars, wcfvars, copyvars, plvars>>

\* Documents are added and commit() brings the tables to the next revision
\* (apply, lines 739-743).
Opener_Commit(p) ==
    /\ cpc[p] = "open"
    /\ dbdir.rev < MaxRev
    /\ dbdir' = [dbdir EXCEPT !.rev = @ + 1]
    /\ hrev' = [hrev EXCEPT ![p] = dbdir.rev + 1]
    /\ UNCHANGED <<flintlock, cpc, cact, cres, revvars, bufvars, wcfvars, copyvars, plvars>>

\* ChertDatabase::close: the tables are closed and lock.release().
Opener_Close(p) ==
    /\ cpc[p] = "open"
    /\ cpc' = [cpc EXCEPT ![p] = "none"]
    /\ hrev' = [hrev EXCEPT ![p] = -1]
    /\ flintlock' = IF flintlock = p THEN "none" ELSE flintlock
    /\ UNCHANGED <<dbdir, cact, cres, revvars, bufvars, wcfvars, copyvars, plvars>>

\* The directory is missing, empty, or holds a database just created.
OpenInit ==
    /\ InitRev /\ NoPosList /\ NoCopy /\ max_changesets = 0 /\ InitBuf /\ assertions = FALSE /\ posterms = {}
    /\ NoRepl
    /\ dbdir \in {[state |-> st, rev |-> 0] : st \in {"nodir", "empty", "db"}}
    /\ flintlock = "none"
    /\ cpc = [p \in Openers |-> "none"]
    /\ cact = [p \in Openers |-> "none"]
    /\ cres = [p \in Openers |-> "none"]
    /\ hrev = [p \in Openers |-> -1]

OpenNext ==
    \/ \E p \in Openers : \E a \in WritableActions : Ctor_Check(p, a)
    \/ \E p \in Openers : Ctor_Lock(p)
    \/ \E p \in Openers : Opener_Commit(p)
    \/ \E p \in Openers : Opener_Close(p)

OpenSpec == OpenInit /\ [][OpenNext]_vars

(***************************************************************************)
(* Part V: chert_positionlist.cc.  The entry of one (did, term) key of     *)
(* the position table as set_positionlist writes it, byte by byte, and     *)
(* the ChertPositionList that read_data loads from it.                     *)
(***************************************************************************)
PosValues == 0..MaxPos \cup {MaxPos + 128}

\* The elements of S in increasing order.
RECURSIVE SortedSeq(_)
SortedSeq(S) ==
    IF S = {} THEN <<>>
    ELSE LET m == CHOOSE x \in S : \A y \in S : x <= y
         IN <<m>> \o SortedSeq(S \ {m})

\* What a PositionIterator can run over: non-empty, strictly increasing.
PosLists == {SortedSeq(S) : S \in SUBSET PosValues \ {{}}}

RECURSIVE Pow2(_)
Pow2(n) == IF n = 0 THEN 1 ELSE 2 * Pow2(n - 1)

\* my_fls: the position of the highest bit set, 0 for 0.
RECURSIVE my_fls(_)
my_fls(n) == IF n = 0 THEN 0 ELSE 1 + my_fls(n \div 2)

\* BitWriter::write_bits: the low n bits of v, lowest first.
Bits(v, n) == [i \in 1..n |-> (v \div Pow2(i - 1)) % 2]

\* BitWriter::encode(value, outof): value out of outof values takes
\* my_fls(outof - 1) bits, one less for the values in the middle when
\* outof is not a power of two, and none at all when outof is 1.
encode(value, outof) ==
    LET bits == my_fls(outof - 1)
        spare == Pow2(bits) - outof
        mid_start == (outof - spare) \div 2
    IN  IF spare = 0 THEN Bits(value, bits)
        ELSE IF value < mid_start THEN Bits(value, bits)
        ELSE IF value >= mid_start + spare
        THEN Bits((value - (mid_start + spare)) + Pow2(bits - 1), bits)
        ELSE Bits(value, bits - 1)

\* BitWriter::encode_interpolative(pos, j, k).
RECURSIVE encode_interpolative(_, _, _)
encode_interpolative(pos, j, k) ==
    IF j + 1 < k
    THEN LET mid == (j + k) \div 2
             outof == pos[k] - pos[j] + j - k + 1
             lowest == pos[j] + mid - j
         IN encode(pos[mid] - lowest, outof)
                \o encode_interpolative(pos, j, mid)
                \o encode_interpolative(pos, mid, k)
    ELSE <<>>

\* BitWriter::freeze: eight bits a byte, lowest first, the last byte
\* filled with zero bits.
RECURSIVE BytesOf(_)
BytesOf(b) ==
    IF b = <<>> THEN <<>>
    ELSE LET n == IF Len(b) < 8 THEN Len(b) ELSE 8
             byte == LET RECURSIVE val(_)
                         val(i) == IF i > n THEN 0
                                   ELSE b[i] * Pow2(i - 1) + val(i + 1)
                     IN val(1)
         IN <<byte>> \o BytesOf(SubSeq(b, n + 1, Len(b)))

\* BitReader's view of the bytes from index i on.
RECURSIVE BitsOf(_, _)
BitsOf(buf, i) ==
    IF i > Len(buf) THEN <<>>
    ELSE Bits(buf[i], 8) \o BitsOf(buf, i + 1)

\* BitReader::read_bits(n) at bit offset at of b: <<value, new offset>>.
\* Bits beyond the data read as 0.
read_bits(b, at, n) ==
    LET RECURSIVE val(_)
        val(i) == IF i > n THEN 0
                  ELSE (IF at + i <= Len(b) THEN b[at + i] ELSE 0)
                           * Pow2(i - 1) + val(i + 1)
    IN <<val(1), at + n>>

\* BitReader::decode(outof) at bit offset at: <<value, new offset>>.
decode(b, at, outof) ==
    LET bits == my_fls(outof - 1)
        spare == Pow2(bits) - outof
        mid_start == (outof - spare) \div 2
    IN  IF spare = 0 THEN read_bits(b, at, bits)
        ELSE LET p == read_bits(b, at, bits - 1)
             IN IF p[1] < mid_start
                THEN LET q == read_bits(b, p[2], 1)
                     IN <<IF q[1] = 1 THEN p[1] + mid_start + spare
                          ELSE p[1], q[2]>>
                ELSE p

\* BitReader::decode_interpolative(pos, j, k) at bit offset at:
\* <<pos filled in between j and k, new offset>>.
RECURSIVE decode_interpolative(_, _, _, _, _)
decode_interpolative(b, at, pos, j, k) ==
    IF j + 1 < k
    THEN LET mid == (j + k) \div 2
             outof == pos[k] - pos[j] + j - k + 1
             d == decode(b, at, outof)
             pos1 == [pos EXCEPT ![mid] = d[1] + (pos[j] + mid - j)]
             left == decode_interpolative(b, d[2], pos1, j, mid)
         IN decode_interpolative(b, left[2], left[1], mid, k)
    ELSE <<pos, at>>

\* The string set_positionlist stores for poscopy (lines 51-64).
PackedPositions(poscopy) ==
    LET n == Len(poscopy)
        s == pack_uint(poscopy[n])
    IN  IF n = 1 THEN s
        ELSE s \o BytesOf(encode(poscopy[1], poscopy[n])
                          \o encode(n - 2, poscopy[n] - poscopy[1])
                          \o encode_interpolative(poscopy, 1, n))

\* Lines 117-136 of read_data on the string data.
UnpackedPositions(data) ==
    LET h == unpack_uint(data, 1)
        pos_last == h[2]
    IN  IF h[3] > Len(data) THEN <<pos_last>>
        ELSE LET b == BitsOf(data, h[3])
                 f == decode(b, 0, pos_last)
                 sz == decode(b, f[2], pos_last - f[1])
                 pos_size == sz[1] + 2
                 pos0 == [i \in 1..pos_size |->
                              IF i = 1 THEN f[1]
                              ELSE IF i = pos_size THEN pos_last ELSE 0]
             IN decode_interpolative(b, sz[2], pos0, 1, pos_size)[1]

\* ChertPositionListTable::set_positionlist(did, tname, pos, pos_end).
set_positionlist(poscopy) ==
    /\ ptable' = [present |-> TRUE, data |-> PackedPositions(poscopy)]
    /\ stored' = poscopy
    /\ plres' = "ok"
    /\ plval' = 0
    /\ UNCHANGED <<revvars, bufvars, wcfvars, ctorvars, copyvars, positions,
                   current_pos, have_started>>

\* ChertPositionListTable::positionlist_count(did, term).
positionlist_count ==
    /\ plres' = "ok"
    /\ plval' =
           IF ~ptable.present THEN 0
           ELSE LET h == unpack_uint(ptable.data, 1)
                IN IF h[3] > Len(ptable.data) THEN 1
                   ELSE LET b == BitsOf(ptable.data, h[3])
                            f == decode(b, 0, h[2])
                        IN decode(b, f[2], h[2] - f[1])[1] + 2
    /\ UNCHANGED <<revvars, bufvars, wcfvars, ctorvars, copyvars, ptable,
                   stored, positions, current_pos, have_started>>

\* ChertPositionList::read_data(table, did, tname).
read_data ==
    /\ have_started' = FALSE
    /\ current_pos' = 1
    /\ IF ~ptable.present
       THEN positions' = <<>> /\ plres' = "false"
       ELSE positions' = UnpackedPositions(ptable.data) /\ plres' = "true"
    /\ plval' = 0
    /\ UNCHANGED <<revvars, bufvars, wcfvars, ctorvars, copyvars, ptable,
                   stored>>

\* ChertPositionList::at_end.
at_end == current_pos = Len(positions) + 1

\* What ++current_pos or *current_pos at or beyond positions.end() may
\* leave behind: the iterator at end() or past it.
Undefined ==
    /\ current_pos' \in {Len(positions) + 1, Len(positions) + 2}
    /\ plres' = "undefined"
    /\ plval' = 0

\* ChertPositionList::next.
next ==
    /\ IF ~have_started
       THEN /\ have_started' = TRUE
            /\ plres' = "ok" /\ plval' = 0
            /\ UNCHANGED current_pos
       ELSE /\ have_started' = have_started
            /\ IF current_pos > Len(positions)
               THEN IF assertions
                    THEN /\ plres' = "AssertionError" /\ plval' = 0
                         /\ UNCHANGED current_pos
                    ELSE Undefined
               ELSE /\ current_pos' = current_pos + 1
                    /\ plres' = "ok" /\ plval' = 0
    /\ UNCHANGED <<revvars, bufvars, wcfvars, ctorvars, copyvars, ptable,
                   stored, positions>>

\* A loop that also steps over a position equal to termpos.
RECURSIVE SkipFrom_Inclusive(_, _)
SkipFrom_Inclusive(i, termpos) ==
    IF i <= Len(positions) /\ positions[i] <= termpos
    THEN SkipFrom_Inclusive(i + 1, termpos) ELSE i

\* Where the loop of line 177 stops when it starts at index i.
RECURSIVE SkipFrom(_, _)
SkipFrom(i, termpos) ==
    IF i <= Len(positions) /\ positions[i] < termpos
    THEN SkipFrom(i + 1, termpos) ELSE i

\* ChertPositionList::skip_to(termpos).
skip_to(termpos) ==
    /\ have_started' = TRUE
    /\ IF current_pos > Len(positions) + 1
       THEN \* not at_end(), and *current_pos is beyond the vector
            Undefined
       ELSE /\ current_pos' = SkipFrom(current_pos, termpos)
            /\ plres' = "ok" /\ plval' = 0
    /\ UNCHANGED <<revvars, bufvars, wcfvars, ctorvars, copyvars, ptable,
                   stored, positions>>

\* ChertPositionList::get_position.
get_position ==
    /\ IF assertions /\ ~have_started
       THEN plres' = "AssertionError" /\ plval' = 0
       ELSE IF current_pos > Len(positions)
       THEN \* *current_pos at or beyond positions.end()
            plres' \in {"position", "undefined"} /\ plval' \in PosValues
       ELSE plres' = "position" /\ plval' = positions[current_pos]
    /\ UNCHANGED <<revvars, bufvars, wcfvars, ctorvars, copyvars, ptable,
                   stored, positions, current_pos, have_started>>

\* The position table of a database just created.
CodecInit ==
    /\ InitRev /\ NoPosList /\ NoCopy /\ max_changesets = 0
    /\ InitBuf /\ assertions = FALSE /\ posterms = {} /\ NoRepl /\ NoOpeners

CodecNext ==
    \/ \E poscopy \in PosLists : set_positionlist(poscopy)
    \/ positionlist_count
    \/ read_data

CodecSpec == CodecInit /\ [][CodecNext]_vars

\* A ChertPositionList on a position table whose entry for the key is any
\* set_positionlist can have written, or none; builds with and without
\* assertions.
IterInit ==
    /\ InitRev /\ NoCopy /\ max_changesets = 0
    /\ InitBuf /\ assertions \in BOOLEAN /\ posterms = {}
    /\ NoRepl /\ NoOpeners
    /\ \/ ptable = NoEntry /\ stored = <<>>
       \/ \E poscopy \in PosLists :
              /\ ptable = [present |-> TRUE,
                           data |-> PackedPositions(poscopy)]
              /\ stored = poscopy
    /\ positions = <<>>
    /\ current_pos = 1
    /\ have_started = FALSE
    /\ plres = "none"
    /\ plval = 0

IterNext ==
    \/ read_data
    \/ next
    \/ \E termpos \in PosValues : skip_to(termpos)
    \/ get_position

IterSpec == IterInit /\ [][IterNext]_vars

TypeOK ==
    /\ \A t \in Tables : Cardinality(disk[t]) \in {1, 2}
    /\ \A t \in Tables : \A e \in disk[t] :
           e.rev \in 0..MaxRev /\ e.data \in Stamps
    /\ lock \in {"none", "w"}
    /\ \A h \in Handles : tries_left[h] \in 0..tries
    /\ pend \in Stamps \cup {"none"}
    /\ max_changesets \in 0..(MaxChangesets + 1)
    /\ changes_fd \in {-1, 3}
    /\ (changes_fd >= 0) = (changes_name # 0)
    /\ DOMAIN changesets \subseteq 1..(MaxRev + 1)

\* Handle table objects tb are all open at revision r.
OpenAtIn(tb, r) == \A t \in Tables : tb[t].open /\ tb[t].rev = r

\* The stamp the base files dk hold at revision r.
StampIn(dk, r) == (CHOOSE e \in dk : e.rev = r).data

InOTC(h) == pc[h] \in {"otc_start", "otc_open", "otc_record"}

OneRevision(h) == \E r \in 0..MaxRev : AllOpenAt(h, r)

(***************************************************************************)
(* C1.  Whenever open_tables_consistent returns without raising (in a      *)
(* constructor or in reopen() of the read-only handle), all six tables of  *)
(* the handle are open at one and the same revision.                       *)
(***************************************************************************)
C1_OpenReturnsOneRevision ==
    [][\A h \in Handles :
          (/\ InOTC(h)
           /\ ~InOTC(h)'
           /\ \/ pc'[h] = "ready" /\ res'[h] = "ok"
              \/ pc'[h] = "commit")
          => OneRevision(h)']_vars

(***************************************************************************)
(* C2.  set_revision_number commits postlist first and record last, so in  *)
(* every reachable state - also after a crash or an error between two      *)
(* table commits - record's latest revision is <= every other table's      *)
(* and postlist's latest revision is the greatest of the six.              *)
(***************************************************************************)
C2_RecordLastPostlistFirst ==
    \A t \in Tables :
        /\ get_latest_revision_number("record")
               <= get_latest_revision_number(t)
        /\ get_latest_revision_number(t)
               <= get_latest_revision_number("postlist")

\* A crash between the commit of spelling and the commit of record.
C2_Witness ==
    /\ pc["w"] = "none"
    /\ get_latest_revision_number("spelling")
           > get_latest_revision_number("record")

(***************************************************************************)
(* C3.  An apply() that finds modifications and completes without error    *)
(* leaves all six tables at one revision, which is the latest revision     *)
(* postlist had when apply() began plus one and is greater than the        *)
(* revision open before the call.                                          *)
(***************************************************************************)
C3_ApplyCommitsNextRevision ==
    [][/\ (pc["w"] = "ready" /\ pc'["w"] = "commit")
          => /\ new_revision' = get_latest_revision_number("postlist") + 1
             /\ old_revision' = get_revision_number("w")
       /\ (pc["w"] = "commit" /\ phase = "apply" /\ phase' = "applied")
          => /\ OpenAtIn(tab'["w"], new_revision)
             /\ \A t \in Tables :
                    get_latest_revision_number(t)' = new_revision
             /\ new_revision > old_revision
             /\ res'["w"] = "ok"]_vars

C3_Witness == phase = "applied" /\ get_revision_number("w") >= 2

(***************************************************************************)
(* C4.  A replace_document(did, doc) on a did that delete_document         *)
(* removed in the same flush window leaves, for every term t of doc that   *)
(* the deleted document had too, the single entry ('M', wdf of t in doc)   *)
(* in mod_plists[t][did].                                                  *)
(***************************************************************************)
C4_DeleteThenReplaceIsModify ==
    [][\A did \in Dids : \A doc \in Docs : \A t \in DocTerms(doc) :
          (/\ did \in DOMAIN doclens
           /\ doclens[did] = -1
           /\ did \in DOMAIN PlistOf(mod_plists, t)
           /\ mod_plists[t][did] = [op |-> "D", wdf |-> 0]
           /\ change_count + 1 < flush_threshold
           /\ replace_document(did, doc, MAX_SAFE_TERM_LENGTH, "other"))
          => /\ did \in DOMAIN PlistOf(mod_plists', t)
             /\ mod_plists'[t][did] = [op |-> "M", wdf |-> doc[t]]]_vars

(***************************************************************************)
(* C5.  When set_revision_number(new) raises inside apply(),               *)
(* modifications_failed drops the buffered changes, reopens every table    *)
(* at the old revision and commits new + 1.  If that commit succeeds all   *)
(* six tables are at new + 1, no table holds the failed number, the        *)
(* contents are those of the old revision, nothing is buffered, and        *)
(* apply() raises the original error.                                      *)
(***************************************************************************)
C5_RecoveryCommitsNewPlusOne ==
    [][/\ (pc["w"] = "modifications_failed" /\ pc'["w"] = "commit")
          => /\ new_revision' = new_revision + 1
             /\ OpenAtIn(tab'["w"], old_revision)
             /\ pend' = "none"
       /\ (pc["w"] = "commit" /\ phase = "recover" /\ phase' = "recovered")
          => /\ OpenAtIn(tab'["w"], new_revision)
             /\ new_revision >= old_revision + 2
             /\ \A t \in Tables :
                    /\ Revs(t)' = {old_revision, new_revision}
                    /\ StampIn(disk'[t], new_revision)
                           = StampIn(disk'[t], old_revision)
             /\ pend' = "none"
             /\ orig_err \in ErrKinds
             /\ res'["w"] = orig_err]_vars

C5_Witness == phase = "recovered" /\ res["w"] = "unknown"

(***************************************************************************)
(* C6.  If the recovery commit inside modifications_failed raises too,     *)
(* whatever it raises, all six tables are closed and the write lock is     *)
(* released, and DatabaseError reaches the caller.                         *)
(***************************************************************************)
C6_FailedRecoveryCloses ==
    phase = "recovery_failed"
        => /\ \A t \in Tables : ~tab["w"][t].open
           /\ lock = "none"
           /\ res["w"] = "DatabaseError"

(***************************************************************************)
(* C7.  When the writable constructor finds record's open revision         *)
(* different from postlist's latest revision, it commits postlist's        *)
(* latest revision + 1 to all six tables with the contents of the          *)
(* revision it opened; after every successful writable open the six        *)
(* tables agree on their latest revision.                                  *)
(***************************************************************************)
C7_OpenRecovers ==
    [][/\ (InOTC("w") /\ pc'["w"] = "commit")
          => /\ tab'["w"]["record"].rev
                    # get_latest_revision_number("postlist")
             /\ new_revision' = get_latest_revision_number("postlist") + 1
       /\ (pc["w"] = "commit" /\ phase = "ctor" /\ phase' = "ctor_recovered")
          => /\ OpenAtIn(tab'["w"], new_revision)
             /\ \A t \in Tables :
                    /\ Revs(t)' = {tab["w"]["record"].rev, new_revision}
                    /\ StampIn(disk'[t], new_revision)
                           = StampIn(disk'[t], tab["w"]["record"].rev)
       /\ (pc["w"] # "ready" /\ pc'["w"] = "ready" /\ op["w"] = "ctor"
              /\ phase' \in {"idle", "ctor_recovered"})
          => \A t \in Tables :
                 get_latest_revision_number(t)'
                     = get_revision_number("w")']_vars

C7_Witness ==
    /\ phase = "ctor_recovered"
    /\ get_revision_number("w") = 3
    /\ 1 \in Revs("record")

C9_OpenTerminates ==
    /\ [](\A h \in Handles :
             pc[h] \in {"otc_open", "otc_record"}
                 => tries_left[h] \in 0..(tries - 1))
    /\ [][\A h \in Handles :
             (InOTC(h) /\ res'[h] = "DatabaseModifiedError"
                 /\ res[h] # "DatabaseModifiedError")
             => (pc[h] = "otc_record" /\ tries_left[h] = 0)]_vars
    /\ \A h \in Handles : InOTC(h) ~> ~InOTC(h)

C9_Witness ==
    /\ pc["r"] = "ready"
    /\ res["r"] = "DatabaseModifiedError"

(***************************************************************************)
(* C10.  The revision a read-only handle reports never decreases: after    *)
(* a reopen() it is >= the revision reported before, under writer          *)
(* commits, failed commits with recovery and crash recovery at open.       *)
(***************************************************************************)
C10_ReaderMonotonic ==
    [][(pc["r"] # "none" /\ pc'["r"] # "none")
          => get_revision_number("r")' >= get_revision_number("r")]_vars

\* A reopen() that moved the handle from revision cur_rev to a later one.
C10_Witness ==
    /\ pc["r"] = "ready"
    /\ op["r"] = "reopen"
    /\ res["r"] = "ok"
    /\ cur_rev["r"] >= 1
    /\ get_revision_number("r") > cur_rev["r"]

\* The posting list of term t that the documents of termlist tl amount
\* to: every document that contains t, with its wdf.
LivePostlist(tl, t) == [d \in {x \in DOMAIN tl : tl[x][t] > 0} |-> tl[d][t]]

RECURSIVE SumOver(_, _)
SumOver(f, S) ==
    IF S = {} THEN 0
    ELSE LET x == CHOOSE y \in S : TRUE IN f[x] + SumOver(f, S \ {x})

\* Sum of the values of a map.
SumMap(f) == SumOver(f, DOMAIN f)

TermfreqDelta(t) ==
    IF t \in DOMAIN freq_deltas THEN freq_deltas[t].termfreq ELSE 0

CollfreqDelta(t) ==
    IF t \in DOMAIN freq_deltas THEN freq_deltas[t].collfreq ELSE 0

(***************************************************************************)
(* C11.  In every state the buffered mod_plists, applied to the posting    *)
(* list each term has in the postlist table, give exactly the live         *)
(* documents that contain the term with their current wdf, and the length  *)
(* and the wdf sum of the result are the length and wdf sum before plus    *)
(* freq_deltas of the term; so what flush_postlist_changes and commit      *)
(* write is the posting list of the live documents.                        *)
(***************************************************************************)
C11_MergeGivesLivePostings ==
    \A t \in Terms :
        LET merged == merge_changes(tables.postlists, mod_plists)[t]
            before == tables.postlists[t]
        IN /\ merged = LivePostlist(tables.termlist, t)
           /\ Cardinality(DOMAIN merged)
                  = Cardinality(DOMAIN before) + TermfreqDelta(t)
           /\ SumMap(merged) = SumMap(before) + CollfreqDelta(t)

(***************************************************************************)
(* The documents of a table state and the sum of their lengths, as a       *)
(* reader of that state computes them from the termlist table.             *)
(***************************************************************************)
LiveDocs(tb) == tb.records

RECURSIVE SumLengths(_, _)
SumLengths(tl, S) ==
    IF S = {} THEN 0
    ELSE LET d == CHOOSE x \in S : TRUE
         IN  DocLength(tl[d]) + SumLengths(tl, S \ {d})

StatsMatch(tb) ==
    /\ DOMAIN tb.termlist = LiveDocs(tb)
    /\ tb.stats.total_doclen = SumLengths(tb.termlist, LiveDocs(tb))
    /\ tb.stats.doccount = Cardinality(LiveDocs(tb))
    /\ tb.stats.last_docid >= Max(LiveDocs(tb) \cup {0})

C13_CommittedDoclensAreLive ==
    /\ DOMAIN committed.doclens = LiveDocs(committed)
    /\ \A d \in DOMAIN committed.doclens :
           /\ d \in DOMAIN committed.termlist
           /\ committed.doclens[d] = DocLength(committed.termlist[d])

C13_Witness ==
    /\ bres = "ok"
    /\ change_count = 0
    /\ committed.stats.last_docid = 2
    /\ DOMAIN committed.doclens = {2}
    /\ committed.doclens[2] = 1

(***************************************************************************)
(* C14: cancel() after uncommitted buffered operations restores the last   *)
(* committed state: freq_deltas, doclens and mod_plists are empty,         *)
(* change_count is 0, the tables have dropped their buffered changes, the  *)
(* in-memory statistics are the committed ones, and a commit made next     *)
(* leaves the committed contents as they were before those operations.     *)
(***************************************************************************)
C14_CancelRestoresCommitted ==
    [][Writable_cancel =>
          /\ freq_deltas' = EmptyMap
          /\ doclens' = EmptyMap
          /\ mod_plists' = EmptyMap
          /\ change_count' = 0
          /\ tables' = committed
          /\ stats' = committed.stats
          /\ stats' = tables'.stats
          /\ committed' = committed
          /\ (IF change_count' # 0
              THEN Flushed(tables', stats', mod_plists', doclens')
              ELSE tables') = committed]_vars

C14_Witness ==
    /\ bres = "cancelled"
    /\ tables = committed
    /\ committed.records = {1}
    /\ stats.last_docid = 1

(***************************************************************************)
(* C15: an add_document or replace_document whose document has a term      *)
(* longer than 245 bytes raises InvalidArgumentError and leaves the state  *)
(* exactly as before the call: the committed tables, the statistics, and   *)
(* the changes buffered by earlier successful uncommitted operations.      *)
(***************************************************************************)
C15_TermTooLongLeavesState ==
    [][bres' = "InvalidArgumentError" =>
          UNCHANGED <<tables, committed, stats, freq_deltas, doclens,
                      mod_plists, change_count>>]_vars

(***************************************************************************)
(* C16: replace_document(did, doc), where doc is the object returned by    *)
(* the latest open_document(did) on this writable handle and nothing in it *)
(* has been modified, leaves the database as it was: no buffer entry, no   *)
(* counter, no table and no statistic differs, and nothing is committed.   *)
(***************************************************************************)
C16_UnmodifiedReplaceIsNoOp ==
    [][\A did \in Dids : \A doc \in ShortcutDocs :
          replace_document(did, doc, MAX_SAFE_TERM_LENGTH, "opened")
          => UNCHANGED <<tables, committed, stats, freq_deltas, doclens,
                         mod_plists, change_count>>]_vars

(***************************************************************************)
(* C17: flush_postlist_changes called when freq_deltas, doclens and        *)
(* mod_plists are all empty is a no-op: the three maps, the statistics and *)
(* every table stay as they were, whether the postlist table counts as     *)
(* modified included, so that an apply() made next commits a new revision  *)
(* only if it would have without the flush.                                *)
(***************************************************************************)
C17_EmptyFlushIsNoOp ==
    [][(/\ freq_deltas = EmptyMap
        /\ doclens = EmptyMap
        /\ mod_plists = EmptyMap
        /\ change_count # 0
        /\ open_allterms)
       => /\ UNCHANGED <<tables, stats, freq_deltas, doclens, mod_plists>>
          /\ ApplyCommits(tables') = ApplyCommits(tables)]_vars

(***************************************************************************)
(* C18: write_changesets_to_fd always terminates - it reaches              *)
(* END_OF_CHANGES, REPL_REPLY_FAIL or an error - whatever a concurrent     *)
(* writer does, a writer that commits a new revision, changeset present,   *)
(* between every two steps of the driver included.                         *)
(***************************************************************************)
C18_DriverTerminates == <>(rpc = "done")

(***************************************************************************)
(* C19: within one write_changesets_to_fd call at most                     *)
(* MAX_DB_COPIES_PER_CONVERSATION whole-database copies are sent; when a   *)
(* further copy is needed after the budget is spent the driver sends       *)
(* REPL_REPLY_FAIL and returns, and no message follows REPL_REPLY_FAIL.    *)
(***************************************************************************)
C19_CopiesWithinBudget ==
    [][/\ fullcopy_count' <= MAX_DB_COPIES_PER_CONVERSATION
       /\ (WCF_WholeDb /\ fullcopy_count = MAX_DB_COPIES_PER_CONVERSATION)
          => /\ last_msg' = "REPL_REPLY_FAIL"
             /\ rpc' = "done"
             /\ UNCHANGED fullcopy_count
       /\ last_msg = "REPL_REPLY_FAIL"
          => /\ rpc = "done"
             /\ UNCHANGED <<last_msg, rpc, fullcopy_count>>]_vars

C19_Witness ==
    /\ rres = "REPL_REPLY_FAIL"
    /\ rpc = "done"
    /\ fullcopy_count = MAX_DB_COPIES_PER_CONVERSATION
    /\ whole_db_copies_left = 0

(***************************************************************************)
(* C20: the changesets streamed by write_changesets_to_fd form a           *)
(* contiguous, strictly increasing chain: each one starts at the revision  *)
(* the follower is at (the requested revision, the revision of the last    *)
(* whole-database copy, or the end of the previous changeset) and ends at  *)
(* a greater one; when changes<start_rev_num> is missing the driver does   *)
(* not move start_rev_num but marks that a whole-database copy is needed.  *)
(***************************************************************************)
C20_ChangesetsChain ==
    [][/\ streamed'.sent => streamed'.gap = 0 /\ streamed'.len > 0
       /\ (WCF_Lookup /\ start_rev_num \notin DOMAIN changes)
          => /\ need_whole_db'
             /\ UNCHANGED <<start_rev_num, follower_rev, last_msg>>
       /\ (~need_whole_db /\ rpc # "copied")
          => follower_rev = start_rev_num]_vars

C20_Witness ==
    /\ last_msg = "REPL_REPLY_CHANGESET"
    /\ streamed.sent
    /\ streamed.len = 2
    /\ fullcopy_count = 1

\* What C21 says of a footer that has been sent for the last copy.
FooterContract ==
    footer.sent = 1 =>
        IF footer.matched
        THEN footer.ahead >= 0
        ELSE /\ footer.ahead = 1
             /\ need_whole_db
             /\ last_msg \in {"REPL_REPLY_DB_FOOTER", "REPL_REPLY_FAIL"}

SetRevisionReturns ==
    /\ pc["w"] = "commit"
    /\ phase' \in {"applied", "recovered", "ctor_recovered"}

\* The step on which set_revision_number is entered.
SetRevisionEntered == pc["w"] # "commit" /\ pc'["w"] = "commit"

\* get_revision_number() of the writer when the set_revision_number that is
\* now running was entered: apply() and modifications_failed() hold it in
\* old_revision; in the constructor record_table is still open at it.
EnteredRevision ==
    IF phase = "ctor" THEN tab["w"]["record"].rev ELSE old_revision

(***************************************************************************)
(* C22.  Every changeset file left by a successful set_revision_number     *)
(* from old revision r to new revision r' is named changes<r>, has r < r', *)
(* and get_changeset_revisions on it returns exactly (r, r'); this covers  *)
(* the changesets of failure recovery (r' = failed revision + 1) and of    *)
(* crash recovery in the constructor.                                      *)
(***************************************************************************)
C22_ChangesetHeaderRoundTrip ==
    [][/\ (SetRevisionEntered /\ changes_fd' >= 0)
          => LET r == tab'["w"]["postlist"].rev
             IN /\ changes_name' = r
                /\ r < new_revision'
                /\ phase' = "recover"
                      => new_revision' = new_revision + 1 /\ r < new_revision
       /\ (SetRevisionReturns /\ changes_fd >= 0)
          => /\ changes_name = EnteredRevision
             /\ changes_name \in DOMAIN changesets'
             /\ get_changeset_revisions(changesets'[changes_name])
                    = [err |-> "none", startrev |-> changes_name,
                       endrev |-> new_revision]
             /\ \A t \in Tables : tab'["w"][t].rev = new_revision]_vars

\* Failure recovery has left changes<1> for the step from 1 to 3.
C22_Witness ==
    /\ phase = "recovered"
    /\ 1 \in DOMAIN changesets
    /\ get_changeset_revisions(changesets[1])
           = [err |-> "none", startrev |-> 1, endrev |-> 3]

Mutation ==
    \/ \E doc \in ShortcutDocs : add_document(doc, MAX_SAFE_TERM_LENGTH)
    \/ \E did \in Dids : delete_document(did)
    \/ \E did \in Dids : \E doc \in ShortcutDocs :
           replace_document(did, doc, MAX_SAFE_TERM_LENGTH, "other")

(***************************************************************************)
(* C24.  A successful add_document, delete_document or replace_document    *)
(* increments change_count by exactly one and returns with change_count    *)
(* below flush_threshold: when the incremented count reaches the threshold *)
(* the write buffer is flushed (the three maps emptied, change_count 0)    *)
(* and a new revision is committed iff no transaction is active; while a   *)
(* transaction is active no mutation advances the revision.                *)
(***************************************************************************)
C24_CountedAndFlushedAtThreshold ==
    [][(Mutation /\ bres' = "ok")
          => /\ change_count' < flush_threshold
             /\ IF change_count + 1 >= flush_threshold
                THEN /\ change_count' = 0
                     /\ BufferEmpty(freq_deltas', doclens', mod_plists')
                     /\ IF transaction_active
                        THEN tables'.modified /\ committed' = committed
                        ELSE ~tables'.modified /\ committed' = tables'
                ELSE /\ change_count' = change_count + 1
                     /\ committed' = committed
             /\ transaction_active => committed' = committed]_vars

\* Inside a transaction the threshold was reached: the buffer has been
\* flushed into the tables, which differ from the committed revision.
C24_Witness ==
    /\ transaction_active
    /\ bres = "ok"
    /\ change_count = 0
    /\ tables.modified
    /\ tables.postlists # committed.postlists

(***************************************************************************)
(* C25.  commit() called while a transaction is active raises              *)
(* InvalidOperationError and changes nothing: write buffer, change_count,  *)
(* tables and revision are as before the call.                             *)
(***************************************************************************)
C25_CommitInTransactionRefused ==
    [][(transaction_active /\ Writable_commit)
          => /\ bres' = "InvalidOperationError"
             /\ UNCHANGED <<tables, committed, stats, freq_deltas, doclens,
                            mod_plists, change_count, transaction_active>>]_vars

\* commit() has been refused with changes buffered.
C25_Witness ==
    /\ transaction_active
    /\ bres = "InvalidOperationError"
    /\ change_count > 0
    /\ mod_plists # EmptyMap

\* The table files as a whole: whether they exist and their revision.
TableFiles(d) == [exists |-> d.state = "db", rev |-> d.rev]

(***************************************************************************)
(* C26.  At any time at most one writable handle per directory holds the   *)
(* write lock and has the tables open for writing: a writable open         *)
(* attempted while another handle holds the lock fails and creates,        *)
(* truncates or commits no table file, and a handle's lock is released     *)
(* only by close().                                                        *)
(***************************************************************************)
C26_OneWriterPerDirectory ==
    /\ [](\A p \in Openers : cpc[p] = "open" => flintlock = p)
    /\ [][\A p \in Openers :
            /\ (flintlock \notin {"none", p} /\ Ctor_Lock(p))
               => /\ cres'[p] = "DatabaseLockError"
                  /\ cpc'[p] = "none"
                  /\ dbdir' = dbdir
                  /\ flintlock' = flintlock
            /\ (/\ flintlock \notin {"none", p}
                /\ \E a \in WritableActions : Ctor_Check(p, a))
               => /\ TableFiles(dbdir') = TableFiles(dbdir)
                  /\ flintlock' = flintlock
            /\ (flintlock = p /\ flintlock' # p) => Opener_Close(p)]_vars

\* An open has failed on the lock another handle holds.
C26_Witness ==
    \E p \in Openers : \E q \in Openers \ {p} :
        /\ cres[p] = "DatabaseLockError"
        /\ cpc[q] = "open"
        /\ flintlock = q
        /\ dbdir.rev > 0

(***************************************************************************)
(* C27.  Opening with CREATE or CREATE_OR_OPEN never re-creates the tables *)
(* of a database that exists: CREATE on an existing database raises        *)
(* DatabaseCreateError and CREATE_OR_OPEN opens it at its latest revision, *)
(* also when the database came to exist between the opener's existence     *)
(* test and its acquisition of the write lock.                             *)
(***************************************************************************)
C27_CreateNeverWipes ==
    [][\A p \in Openers :
          /\ (database_exists /\ Ctor_Check(p, "DB_CREATE"))
             => cres'[p] = "DatabaseCreateError" /\ cpc'[p] = "none"
          /\ (/\ database_exists
              /\ cact[p] \in {"DB_CREATE", "DB_CREATE_OR_OPEN"}
              /\ Ctor_Lock(p))
             => /\ dbdir' = dbdir
                /\ cpc'[p] = "open"
                      => /\ cact[p] = "DB_CREATE_OR_OPEN"
                         /\ hrev'[p] = dbdir.rev]_vars

\* replace_document(did, ...) ends in add_document_: did is above
\* last_docid (lines 1280-1286) or has no termlist (lines 1433-1435).
ReplaceAdds(did) ==
    did > stats.last_docid \/ did \notin DOMAIN tables.termlist

(***************************************************************************)
(* C28.  Every time add_document_ runs for a did - from add_document, from *)
(* replace_document with did above last_docid or through the               *)
(* DocNotFoundError fallback - mod_plists holds no entry for (t, did) for  *)
(* any term t of the document and doclens has no entry for did or holds    *)
(* the deletion sentinel, so both assertions hold and the insert of        *)
(* ('A', wdf) takes effect.                                                *)
(***************************************************************************)
C28_AddFindsNoEntry ==
    [][/\ \A doc \in Docs :
             add_document(doc, MAX_SAFE_TERM_LENGTH)
             => ~AddAssertFails(mod_plists, doclens,
                                stats.last_docid + 1, doc)
       /\ \A did \in Dids : \A doc \in Docs :
             (/\ ReplaceAdds(did)
              /\ replace_document(did, doc, MAX_SAFE_TERM_LENGTH, "other"))
             => /\ ~AddAssertFails(mod_plists, doclens, did, doc)
                /\ \A t \in DocTerms(doc) :
                      PlistInsert(mod_plists, did, doc)[t][did]
                          = [op |-> "A", wdf |-> doc[t]]]_vars

\* The ops buffered for did, term by term.
EntryOf(mp, t, did) ==
    IF did \in DOMAIN PlistOf(mp, t) THEN mp[t][did].op ELSE "none"

(***************************************************************************)
(* C29.  Within one flush window the buffered op of every (term, did)      *)
(* follows the transition table: a delete (delete_document, or the first   *)
(* half of replace_document) sets ('D', 0) whatever was there; the add     *)
(* half of replace_document turns an existing entry, which is then always  *)
(* 'D', into ('M', new wdf) and creates ('A', wdf) when there is none; no  *)
(* other op appears, and flush or cancel removes all entries.              *)
(***************************************************************************)
C29_OpTransitions ==
    /\ [](/\ \A t \in DOMAIN mod_plists : \A d \in DOMAIN mod_plists[t] :
                /\ mod_plists[t][d].op \in {"A", "D", "M"}
                /\ mod_plists[t][d].op = "D" => mod_plists[t][d].wdf = 0
          /\ change_count = 0 => mod_plists = EmptyMap)
    /\ [][\A did \in Dids :
            /\ (/\ bres' = "ok"
                /\ change_count' = change_count + 1
                /\ delete_document(did))
               => \A t \in DocTerms(tables.termlist[did]) :
                     mod_plists'[t][did] = [op |-> "D", wdf |-> 0]
            /\ \A doc \in Docs :
                  (/\ ~ReplaceAdds(did)
                   /\ bres' = "ok"
                   /\ change_count' = change_count + 1
                   /\ replace_document(did, doc, MAX_SAFE_TERM_LENGTH,
                                       "other"))
                  => LET old == tables.termlist[did]
                         mid == PlistDelete(mod_plists, did, old)
                     IN /\ \A t \in DocTerms(old) :
                              EntryOf(mid, t, did) = "D"
                        /\ \A t \in DocTerms(doc) :
                              /\ EntryOf(mid, t, did) \in {"D", "none"}
                              /\ mod_plists'[t][did] =
                                    [op |-> IF EntryOf(mid, t, did) = "D"
                                            THEN "M" ELSE "A",
                                     wdf |-> doc[t]]
                        /\ \A t \in DocTerms(old) \ DocTerms(doc) :
                              mod_plists'[t][did] = [op |-> "D", wdf |-> 0]
                        /\ \A t \in Terms \ (DocTerms(old) \cup DocTerms(doc)) :
                              EntryOf(mod_plists', t, did)
                                  = EntryOf(mod_plists, t, did)]_vars

\* A replace has turned the 'D' of its delete half into 'M', beside an 'A'
\* for a term the document did not have.
C29_Witness ==
    \E did \in Dids :
        /\ EntryOf(mod_plists, "a", did) = "M"
        /\ EntryOf(mod_plists, "b", did) = "A"

\* ChertWritableDatabase::get_termfreq
get_termfreq(t) == tables.freqs[t].termfreq + TermfreqDelta(t)

\* ChertWritableDatabase::get_collection_freq
get_collection_freq(t) == tables.freqs[t].collfreq + CollfreqDelta(t)

\* ChertWritableDatabase::term_exists
term_exists(t) == get_termfreq(t) # 0

MutationRaises ==
    \/ bres' \in {"InvalidArgumentError", "AssertionError", "DatabaseError"}
    \/ /\ bres' = "FeatureUnavailableError"
       /\ \E did \in Dids : \E doc \in ShortcutDocs : \E len \in TermLens :
              replace_document(did, doc, len, "other")
    \/ /\ bres' = "DocNotFoundError"
       /\ \E did \in tables.records : delete_document(did)

\* Nothing is buffered after the step and the statistics are the
\* committed ones.
Cancelled ==
    /\ BufferEmpty(freq_deltas', doclens', mod_plists')
    /\ change_count' = 0
    /\ tables' = committed'
    /\ committed' = committed
    /\ stats' = committed.stats

(***************************************************************************)
(* C31 as stated.  When add_document, replace_document, or delete_document *)
(* after its record deletion succeeded, raises any error, then freq_deltas,*)
(* doclens and mod_plists are empty, change_count is 0, every table's      *)
(* buffered changes are cancelled and stats are the last committed stats.  *)
(***************************************************************************)
C31_AnyErrorCancels ==
    [][MutationRaises => Cancelled]_vars

(***************************************************************************)
(* C31.  An error raised inside the try block of add_document_,            *)
(* replace_document or delete_document leaves freq_deltas, doclens and     *)
(* mod_plists empty, change_count 0, the tables as committed and stats the *)
(* committed stats; the DatabaseError add_document raises when it has run  *)
(* out of docids is raised before anything is modified and leaves the      *)
(* buffered changes of earlier operations as they were.                    *)
(***************************************************************************)
C31_ErrorInTryCancels ==
    [][/\ (MutationRaises /\ bres' # "DatabaseError") => Cancelled
       /\ bres' = "DatabaseError"
          => UNCHANGED <<tables, committed, stats, freq_deltas, doclens,
                         mod_plists, change_count>>]_vars

\* A too long term has been refused after a document was committed and the
\* later commit the claim speaks of finds nothing to write.
C31_Witness ==
    /\ bres = "InvalidArgumentError"
    /\ committed.records # {}
    /\ change_count = 0
    /\ ~ApplyCommits(tables)

(***************************************************************************)
(* C32.  delete_document(did) fails before touching the write buffer when  *)
(* the termlist table is absent (FeatureUnavailableError) or the record    *)
(* for did does not exist: freq_deltas, doclens, mod_plists, stats and     *)
(* change_count are as before the call and the changes buffered by earlier *)
(* operations are kept.                                                    *)
(***************************************************************************)
C32_DeleteFailsBeforeBuffer ==
    [][\A did \in Dids :
          (/\ ~tables.termlist_open \/ did \notin tables.records
           /\ delete_document(did))
          => /\ bres' = IF tables.termlist_open THEN "DocNotFoundError"
                        ELSE "FeatureUnavailableError"
             /\ UNCHANGED <<tables, committed, stats, freq_deltas, doclens,
                            mod_plists, change_count>>]_vars

\* A delete has been refused for want of a termlist table while an add is
\* buffered.
C32_Witness ==
    /\ bres = "FeatureUnavailableError"
    /\ ~tables.termlist_open
    /\ change_count > 0
    /\ mod_plists # EmptyMap

\* Where a leaf name stands in filenames.
IndexOf(leaf) == CHOOSE i \in 1..Len(filenames) : filenames[i] = leaf

\* The messages sq of a copy so far: REPL_REPLY_DB_HEADER first, then for
\* some of the names, in the order of filenames, REPL_REPLY_DB_FILENAME
\* with REPL_REPLY_DB_FILEDATA of the same file right after it.
CopyInOrder(sq) ==
    sq # <<>> =>
        /\ sq[1] = Msg("REPL_REPLY_DB_HEADER", "")
        /\ \A i \in 2..Len(sq) :
              /\ sq[i].leaf \in AllFiles
              /\ sq[i].type = IF sq[i - 1].type = "REPL_REPLY_DB_FILENAME"
                              THEN "REPL_REPLY_DB_FILEDATA"
                              ELSE "REPL_REPLY_DB_FILENAME"
              /\ sq[i].type = "REPL_REPLY_DB_FILEDATA"
                 => sq[i].leaf = sq[i - 1].leaf
              /\ (sq[i].type = "REPL_REPLY_DB_FILENAME" /\ i > 2)
                 => IndexOf(sq[i - 1].leaf) < IndexOf(sq[i].leaf)

\* The step looks for a file and announces it exactly when it is there.
AnnouncesWhatExists ==
    (rpc = "copying" /\ ~announced /\ (fpos' # fpos \/ announced'))
    => (announced' <=> filenames[fpos] \in dirfiles)

(***************************************************************************)
(* C33.  Every whole-database copy is the message sequence DB_HEADER, then *)
(* for each file that exists a DB_FILENAME immediately followed by its     *)
(* DB_FILEDATA, in the order termlist, synonym, spelling, record,          *)
(* position, postlist (each .DB, .baseA, .baseB) and iamchert last, then   *)
(* exactly one DB_FOOTER; no absent file is announced and no CHANGESET     *)
(* message comes between a DB_HEADER and its DB_FOOTER.                    *)
(***************************************************************************)
C33_CopyIsHeaderFilesFooter ==
    /\ [](CopyInOrder(sent))
    /\ [][/\ AnnouncesWhatExists
          /\ rpc = "copying" => rpc' \in {"copying", "copied"}
          /\ (rpc = "copying" /\ rpc' = "copied")
             => sent'[Len(sent')].type # "REPL_REPLY_DB_FILENAME"
          /\ (rpc = "copied" /\ rpc' # "copied")
             => last_msg' = "REPL_REPLY_DB_FOOTER" /\ footer'.sent = 1
          /\ last_msg' = "REPL_REPLY_CHANGESET"
             => rpc \notin {"copying", "copied"}]_vars

\* The step ends the write_changesets_to_fd call.
ConversationStops == rpc # "done" /\ rpc' = "done"

TerminalMessages == {"REPL_REPLY_END_OF_CHANGES", "REPL_REPLY_FAIL"}

\* A terminal message is sent by the step that ends the call and by no
\* other, and nothing is sent after the call has ended.
TerminalIsLast ==
    /\ (last_msg' \in TerminalMessages /\ rpc # "done") => rpc' = "done"
    /\ rpc = "done" => last_msg' = last_msg

\* The call ends with REPL_REPLY_END_OF_CHANGES exactly when the follower
\* is caught up after a reopen with unchanged UUID, with REPL_REPLY_FAIL
\* exactly when the budget of copies is spent.
EndsWithTerminal ==
    /\ last_msg' = rres'
    /\ rres' = "REPL_REPLY_END_OF_CHANGES"
       => /\ ~need_whole_db
          /\ start_rev_num' >= r_rev'
          /\ r_rev' = d_rev'
          /\ start_uuid = r_uuid'
    /\ rres' = "REPL_REPLY_FAIL"
       => need_whole_db /\ whole_db_copies_left = 0

(***************************************************************************)
(* C34 as stated.  Every write_changesets_to_fd conversation that stops    *)
(* ends with exactly one terminal message as its last message,             *)
(* REPL_REPLY_END_OF_CHANGES when the follower is caught up and            *)
(* REPL_REPLY_FAIL when the driver gives up, a changeset whose header      *)
(* start revision differs from its file name or is not less than its end   *)
(* included.                                                               *)
(***************************************************************************)
C34_StopsWithTerminalMessage ==
    [][/\ TerminalIsLast
       /\ ConversationStops
          => rres' \in TerminalMessages /\ EndsWithTerminal]_vars

(***************************************************************************)
(* C34.  A write_changesets_to_fd call that returns ends with exactly one  *)
(* terminal message as its last message, REPL_REPLY_END_OF_CHANGES when    *)
(* the follower is caught up after a reopen with unchanged UUID and        *)
(* REPL_REPLY_FAIL when the budget of copies is spent.  A call that ends   *)
(* by raising sends no terminal message: DatabaseError when the header of  *)
(* changes<start_rev_num> has a start revision other than start_rev_num or *)
(* not less than its end revision, and the error of a reopen() that finds  *)
(* a newer revision committed.                                             *)
(***************************************************************************)
C34_ReturnsWithTerminalMessage ==
    [][/\ TerminalIsLast
       /\ ConversationStops
          => \/ rres' \in TerminalMessages /\ EndsWithTerminal
             \/ /\ rres' = "DatabaseError"
                /\ last_msg' = last_msg
                /\ rpc = "lookup"
                /\ start_rev_num \in DOMAIN changes
                /\ \/ changes[start_rev_num].start # start_rev_num
                   \/ changes[start_rev_num].start
                          >= changes[start_rev_num].end
             \/ /\ rres' = "DatabaseModifiedError"
                /\ last_msg' = last_msg
                /\ d_rev # r_rev]_vars

\* A call has returned REPL_REPLY_END_OF_CHANGES after a copy and a
\* changeset.
C34_Witness ==
    /\ rpc = "done"
    /\ rres = "REPL_REPLY_END_OF_CHANGES"
    /\ last_msg = "REPL_REPLY_END_OF_CHANGES"
    /\ fullcopy_count > 0
    /\ streamed.sent

\* open_post_list(""), lines 1545-1554, on statistics st and buffered
\* lengths dl; ChertDatabase::open_post_list (lines 883-889) is the same
\* with nothing buffered.
open_post_list(st, dl) ==
    IF st.last_docid = st.doccount THEN "ContiguousAllDocsPostList"
    ELSE IF dl = EmptyMap THEN "ChertAllDocsPostList"
    ELSE "ChertAllDocsModifiedPostList"

\* The documents of tables tb with the lengths dl buffered on top: those
\* the all-documents list goes through.
AllDocs(tb, dl) == DOMAIN merge_doclens(tb.doclens, dl)

C36_NoReturnAfterRaise ==
    [][(/\ op["r"] = "reopen"
        /\ res["r"] \in {"DatabaseCorruptError", "DatabaseModifiedError"}
        /\ InOTC("r")
        /\ pc'["r"] = "ready"
        /\ res'["r"] = "ok")
       => OneRevision("r")']_vars


\* C37: after replace_document(did, doc) or delete_document(did) the
\* position table holds no position list for (did, t) for a term t the
\* document no longer contains: every position list left belongs to a live
\* document that has the term, so open_position_list(did, t) is empty for
\* every removed term, and has_positions() is false once no live document
\* has positions.
C37_NoStalePositions ==
    /\ \A did \in Dids : \A t \in Terms :
           open_position_list(did, t)
               => /\ did \in DOMAIN tables.termlist
                  /\ t \in DocTerms(tables.termlist[did])
    /\ has_positions
           => \E did \in DOMAIN tables.termlist :
                  \E t \in DocTerms(tables.termlist[did]) :
                      open_position_list(did, t)


C39_StoredListReadsBack ==
    /\ [][read_data
          => IF ptable.present
             THEN plres' = "true" /\ positions' = stored
             ELSE plres' = "false" /\ positions' = <<>>]_vars
    /\ [][positionlist_count
          => plval' = IF ptable.present THEN Len(stored) ELSE 0]_vars


\* The iterator is inside the vector or at its end().
InRange == current_pos <= Len(positions) + 1

\* What next() does when it may be called.
NextStep ==
    /\ have_started'
    /\ plres' = "ok"
    /\ current_pos' = IF have_started THEN current_pos + 1 ELSE current_pos

\* What skip_to(x) leaves: not behind where it was, at the first position
\* >= x from there on, or at the end when there is none.
SkipStep(x) ==
    /\ have_started'
    /\ plres' = "ok"
    /\ current_pos' >= current_pos
    /\ current_pos' <= Len(positions) + 1
    /\ current_pos' <= Len(positions) => positions[current_pos'] >= x
    /\ \A i \in current_pos..(current_pos' - 1) : positions[i] < x

\* C40 as stated: under any sequence of calls the first next() starts the
\* list at p1 and each later one advances by one, skip_to(x) goes forward
\* to the first position >= x, at_end() holds exactly when all positions
\* have been passed, and get_position() returns only while started and not
\* at_end.
C40_AnySequenceOfCalls ==
    /\ [][next => NextStep]_vars
    /\ [][\A x \in PosValues : skip_to(x) => SkipStep(x)]_vars
    /\ [](at_end <=> current_pos > Len(positions))
    /\ [][get_position /\ plres' = "position"
          => have_started /\ ~at_end]_vars

\* C40: for a ChertPositionList loaded with p1 < ... < pn, as long as
\* next() is not called once the list is started and at_end(): the first
\* next() makes p1 current without skipping it and each later next()
\* advances by exactly one; skip_to(x) never moves backwards and leaves the
\* current position at the first position >= x at or after the current one,
\* or at the end when there is none; the iterator stays within the list, so
\* at_end() holds exactly when all n positions have been passed; and
\* get_position() called while started and not at_end returns the current
\* position.
C40_SequenceWithinAsserts ==
    /\ [][(next /\ InRange /\ ~(have_started /\ at_end)) => NextStep]_vars
    /\ [][\A x \in PosValues :
              (skip_to(x) /\ InRange) => SkipStep(x)]_vars
    /\ [][(InRange /\ ~(next /\ have_started /\ at_end))
          => /\ InRange'
             /\ at_end' <=> current_pos' > Len(positions')]_vars
    /\ [][(get_position /\ have_started /\ ~at_end /\ InRange)
          => /\ plres' = "position"
             /\ plval' = positions[current_pos]]_vars
    /\ [](~have_started => current_pos = 1)

\* A list of three positions was stored and loaded, the iterator was
\* started and every position has been passed.
C40_Witness ==
    /\ Len(positions) = 3
    /\ positions = stored
    /\ have_started
    /\ at_end
    /\ plres = "ok"

====
